---- MODULE Spec2Model ----
(***************************************************************************)
(* State-machine model of VWAPStrategy (VWAP.h / VWAP.cpp): the rolling    *)
(* VWAP window, the readiness check, the position decision of OnTrade and  *)
(* the order adjustment, together with the host collaborators the strategy *)
(* reads (clock, top quote, portfolio position, working orders).           *)
(*                                                                         *)
(* Numbers.  Prices are integers (an integer-valued double is exact, and   *)
(* so are the sums and differences of products the window accumulates).    *)
(* Values computed in double arithmetic (VWAP, mid price, deviation, the   *)
(* entry threshold) are IEEE 754 binary64 numbers, every operation rounded *)
(* to nearest, ties to even.                                               *)
(* Timestamps are integers counting clock ticks, TicksPerSecond ticks to   *)
(* the second; total_seconds() truncates a tick count to whole seconds.    *)
(***************************************************************************)
EXTENDS Integers, Sequences, FiniteSets, TLC

VARIABLES
    vwap_window_,          \* std::deque<VWAPTradeRecord>, front = index 1
    cumulative_pv_,        \* double: sum of price * volume
    cumulative_volume_,    \* int: sum of volume
    vwap_window_seconds_,  \* int
    entry_threshold_bps_,  \* double
    max_inventory_,        \* int
    position_size_,        \* int
    debug_,                \* bool
    now,                   \* host clock: event_time of the last trade event (ticks)
    quote,                 \* host: instrument -> top quote
    position,              \* host portfolio: instrument -> signed position
    working,               \* host order manager: instrument -> working orders
    delivered,             \* history: trades delivered since the last reset
    cutoffs,               \* history: {largest pruning cutoff of those trade events}, or {}
    halted,                \* the process died (undefined behaviour took the crash outcome)
    out,                   \* what the last handled event read, decided, requested and logged
    journey,               \* history: how far the orders sent went from flat and back
    dec,                   \* inputs and result of one stand-alone position decision
    pr                     \* a window state, a cutoff and the results of pruning it

vars == <<vwap_window_, cumulative_pv_, cumulative_volume_, vwap_window_seconds_,
          entry_threshold_bps_, max_inventory_, position_size_, debug_, now, quote,
          position, working, delivered, cutoffs, halted, out, journey, dec, pr>>

strategy_fields == <<vwap_window_, cumulative_pv_, cumulative_volume_,
                     vwap_window_seconds_, entry_threshold_bps_, max_inventory_,
                     position_size_, debug_>>

config_fields == <<vwap_window_seconds_, entry_threshold_bps_, max_inventory_,
                   position_size_, debug_>>

-----------------------------------------------------------------------------
(* Bounds of the model *)

\* clock ticks per second (resolution of the modelled timestamps)
TicksPerSecond == 2

\* the host clock does not run past this tick
MaxTime == 4

\* at most this many trades are delivered between two resets
MaxTrades == 3

-----------------------------------------------------------------------------
(* Program constants *)

\* const int MIN_TRADE_REQUIRED = 3;
MIN_TRADE_REQUIRED == 3

\* basis points per unit: "* 10000.0"
BPS_FACTOR == 10000

\* the documentation's "Ready Check: Requires >=3 trades OR >=60 seconds of history"
DOC_READY_SECONDS == 60

\* the documented default of entry_threshold_bps, in bps
DOC_ENTRY_THRESHOLD == 2

\* constructor defaults
DEFAULT_WINDOW_SECONDS == 300

DEFAULT_MAX_INVENTORY == 5

DEFAULT_POSITION_SIZE == 1

-----------------------------------------------------------------------------
(* IEEE 754 binary64 arithmetic, round to nearest with ties to even,        *)
(* standing for the program's double arithmetic.  A double is the record    *)
(* [s, hi, lo, e] of value s * (hi * 2^27 + lo) * 2^e: s is 1 or -1 and the *)
(* 53-bit significand is held in two limbs, 2^25 <= hi < 2^26 and           *)
(* 0 <= lo < 2^27; zero is hi = lo = 0 and e = 0, with either sign.  The    *)
(* values that the bounded inputs produce stay far from overflow and        *)
(* underflow: infinities, NaN and subnormal numbers are not represented.    *)
(* An intermediate value is handed on as an operator argument, each         *)
(* operator applying the next step once.                                    *)

Abs(x) == IF x < 0 THEN -x ELSE x

\* the limb base, 2^27
LIMB == 134217728

\* the least high limb of a 53-bit significand, 2^25
HI_MIN == 33554432

\* +0.0
Zero == [s |-> 1, hi |-> 0, lo |-> 0, e |-> 0]

\* x == 0.0, true of both zeros
DblIsZero(a) == a.hi = 0 /\ a.lo = 0

\* -a
DblNeg(a) == [a EXCEPT !.s = -a.s]

\* the number of bits of x >= 0
RECURSIVE BitLength(_)
BitLength(x) ==
    IF x >= 256 THEN 8 + BitLength(x \div 256)
    ELSE IF x >= 16 THEN 4 + BitLength(x \div 16)
    ELSE IF x >= 2 THEN 1 + BitLength(x \div 2)
    ELSE x

\* the two-limb number <<h, l>> shifted left by n >= 0 bits (the result is
\* below 2^58)
RECURSIVE ShiftLeft(_, _, _)
ShiftLeft(h, l, n) ==
    IF n > 26 THEN ShiftLeft(h * 2^26 + l \div 2, (l % 2) * 2^26, n - 26)
    ELSE <<h * 2^n + l \div 2^(27 - n), (l % 2^(27 - n)) * 2^n>>

\* l with its lowest bit set when lost holds (the sticky bit)
WithSticky(l, lost) == IF lost /\ l % 2 = 0 THEN l + 1 ELSE l

\* the two-limb number <<h, l>> shifted right by n >= 0 bits, its lowest bit
\* set when a non-zero bit was shifted out
RECURSIVE ShiftRightSticky(_, _, _, _)
ShiftRightSticky(h, l, n, sticky) ==
    IF n > 26 THEN ShiftRightSticky(h \div LIMB, h % LIMB, n - 27, sticky \/ l # 0)
    ELSE <<h \div 2^n,
           WithSticky((h % 2^n) * 2^(27 - n) + l \div 2^n, sticky \/ l % 2^n # 0)>>

\* the double of sign s, significand <<mh, ml>> after rounding (ml = LIMB
\* when the low limb carried) and exponent e
Carried53(s, mh, ml, e) ==
    IF ml < LIMB THEN [s |-> s, hi |-> mh, lo |-> ml, e |-> e]
    ELSE IF mh + 1 < 2 * HI_MIN THEN [s |-> s, hi |-> mh + 1, lo |-> 0, e |-> e]
    ELSE [s |-> s, hi |-> HI_MIN, lo |-> 0, e |-> e + 1]

\* x = <<h, l>> is a 56-bit number: its 53 leading bits are the significand
\* and the three bits below decide the rounding, up above one half and to
\* even at one half
RoundedBits(s, x, e) ==
    Carried53(s, x[1] \div 8,
              (x[1] % 8) * 2^24 + x[2] \div 8
                  + (IF x[2] % 8 > 4 \/ (x[2] % 8 = 4 /\ (x[2] \div 8) % 2 = 1)
                     THEN 1 ELSE 0),
              e)

\* <<h, l>> has n bits: it is brought to 56 bits
RoundedAt(s, h, l, e, n) ==
    RoundedBits(s,
                IF n > 56 THEN ShiftRightSticky(h, l, n - 56, FALSE)
                ELSE ShiftLeft(h, l, 56 - n),
                e + n - 53)

\* The double nearest s * X * 2^e, for a two-limb number X = <<h, l>> with
\* 0 <= X < 2^57 whose lowest bit is sticky; +0.0 for X = 0.
Rounded(s, h, l, e) ==
    IF h = 0 /\ l = 0 THEN Zero
    ELSE RoundedAt(s, h, l, e, IF h = 0 THEN BitLength(l) ELSE 27 + BitLength(h))

\* (double) k for an int k: exact
DblInt(k) == Rounded(IF k < 0 THEN -1 ELSE 1, Abs(k) \div LIMB, Abs(k) % LIMB, 0)

\* -1, 0 or 1 as |a| is below, equal to or above |b|
CompareMagnitude(a, b) ==
    IF a.e # b.e /\ ~DblIsZero(a) /\ ~DblIsZero(b) THEN (IF a.e < b.e THEN -1 ELSE 1)
    ELSE IF a.hi # b.hi THEN (IF a.hi < b.hi THEN -1 ELSE 1)
    ELSE IF a.lo # b.lo THEN (IF a.lo < b.lo THEN -1 ELSE 1)
    ELSE 0

\* the sign of a: -1, 0 or 1
DblSign(a) == IF DblIsZero(a) THEN 0 ELSE a.s

\* -1, 0 or 1 as a < b, a == b or a > b; the two zeros are equal
DblCompare(a, b) ==
    IF DblSign(a) # DblSign(b) THEN (IF DblSign(a) < DblSign(b) THEN -1 ELSE 1)
    ELSE a.s * CompareMagnitude(a, b)

DblLT(a, b) == DblCompare(a, b) < 0

DblLE(a, b) == DblCompare(a, b) <= 0

DblGT(a, b) == DblCompare(a, b) > 0

DblGE(a, b) == DblCompare(a, b) >= 0

\* the sum (same) or difference of the aligned magnitudes x >= y, rounded
AddAligned(s, same, x, y, e) ==
    Rounded(s,
            IF same THEN x[1] + y[1] + (x[2] + y[2]) \div LIMB
            ELSE x[1] - y[1] - (IF x[2] < y[2] THEN 1 ELSE 0),
            IF same THEN (x[2] + y[2]) % LIMB ELSE (x[2] - y[2] + LIMB) % LIMB,
            e)

\* ab = <<a, b>> with |a| >= |b| > 0: both significands are given three more
\* bits and the one of b is aligned to the exponent of a (sticky)
AddOrdered(ab) ==
    AddAligned(ab[1].s, ab[1].s = ab[2].s,
               ShiftLeft(ab[1].hi, ab[1].lo, 3),
               ShiftRightSticky(ab[2].hi * 8 + ab[2].lo \div 16777216,
                                (ab[2].lo % 16777216) * 8, ab[1].e - ab[2].e, FALSE),
               ab[1].e - 3)

\* a + b
DblAdd(a, b) ==
    IF DblIsZero(a) /\ DblIsZero(b) THEN (IF a.s = -1 /\ b.s = -1 THEN a ELSE Zero)
    ELSE IF DblIsZero(a) THEN b
    ELSE IF DblIsZero(b) THEN a
    ELSE AddOrdered(IF CompareMagnitude(a, b) >= 0 THEN <<a, b>> ELSE <<b, a>>)

\* a - b
DblSub(a, b) == DblAdd(a, DblNeg(b))

\* the 14-bit limbs of a significand, least significant first
Limbs14(a) ==
    <<a.lo % 16384, a.lo \div 16384 + (a.hi % 2) * 8192, (a.hi \div 2) % 16384,
      a.hi \div 32768>>

\* the carries of a sequence of column sums propagated, in base 2^14
RECURSIVE Carried(_, _)
Carried(cols, carry) ==
    IF cols = <<>> THEN <<>>
    ELSE <<(Head(cols) + carry) % 16384>>
         \o Carried(Tail(cols), (Head(cols) + carry) \div 16384)

\* p is the 106-bit product in 14-bit limbs: its 57 leading bits (sticky),
\* rounded
MulRounded(s, p, e) ==
    Rounded(s, p[6] \div 64 + p[7] * 256 + p[8] * 4194304,
            WithSticky(p[4] \div 128 + p[5] * 128 + (p[6] % 64) * 2097152,
                       p[1] # 0 \/ p[2] # 0 \/ p[3] # 0 \/ p[4] % 128 # 0),
            e)

\* the exact product of the significands x and y, given in 14-bit limbs
MulLimbs(s, x, y, e) ==
    MulRounded(s,
               Carried(<<x[1] * y[1],
                         x[1] * y[2] + x[2] * y[1],
                         x[1] * y[3] + x[2] * y[2] + x[3] * y[1],
                         x[1] * y[4] + x[2] * y[3] + x[3] * y[2] + x[4] * y[1],
                         x[2] * y[4] + x[3] * y[3] + x[4] * y[2],
                         x[3] * y[4] + x[4] * y[3],
                         x[4] * y[4],
                         0>>, 0),
               e)

\* a * b
DblMul(a, b) ==
    IF DblIsZero(a) \/ DblIsZero(b) THEN [Zero EXCEPT !.s = a.s * b.s]
    ELSE MulLimbs(a.s * b.s, Limbs14(a), Limbs14(b), a.e + b.e + 49)

\* the remainder <<rh, rl>> doubled and the bit appended to the quotient
Doubled(rh, rl, qh, ql, bit) ==
    <<2 * rh + (2 * rl) \div LIMB, (2 * rl) % LIMB,
      2 * qh + (2 * ql + bit) \div LIMB, (2 * ql + bit) % LIMB>>

\* One step of the long division of r by b: the next quotient bit is
\* appended to q and the remainder is doubled.  st is <<rh, rl, qh, ql>>.
QuotientBit(st, bh, bl) ==
    IF st[1] > bh \/ (st[1] = bh /\ st[2] >= bl)
    THEN Doubled(st[1] - bh - (IF st[2] < bl THEN 1 ELSE 0), (st[2] - bl + LIMB) % LIMB,
                 st[3], st[4], 1)
    ELSE Doubled(st[1], st[2], st[3], st[4], 0)

\* the quotient x = <<h, l>>, its lowest bit set when a remainder is left
QuotientSticky(x, left) == <<x[1], IF left THEN x[2] + 1 ELSE x[2]>>

\* n more quotient bits (n a multiple of 5), then the sticky bit
RECURSIVE QuotientBits(_, _, _, _)
QuotientBits(st, bh, bl, n) ==
    IF n = 0 \/ (st[1] = 0 /\ st[2] = 0)
    THEN QuotientSticky(ShiftLeft(st[3], st[4], n + 1), st[1] # 0 \/ st[2] # 0)
    ELSE QuotientBits(QuotientBit(QuotientBit(QuotientBit(QuotientBit(QuotientBit(
                          st, bh, bl), bh, bl), bh, bl), bh, bl), bh, bl),
                      bh, bl, n - 5)

\* the quotient of the significands, rounded
DivRounded(s, x, e) == Rounded(s, x[1], x[2], e)

\* r = <<rh, rl, k>>: the dividend's significand, doubled when it is below
\* the divisor's, and the number k of bits the quotient is scaled by
DivAligned(s, r, b, e) ==
    DivRounded(s, QuotientBits(<<r[1], r[2], 0, 0>>, b.hi, b.lo, 55), e - r[3])

\* a / b, b # 0: 55 quotient bits of the significands by long division, the
\* remainder as the sticky bit, rounded
DblDiv(a, b) ==
    IF DblIsZero(a) THEN [Zero EXCEPT !.s = a.s * b.s]
    ELSE DivAligned(a.s * b.s,
                    IF a.hi < b.hi \/ (a.hi = b.hi /\ a.lo < b.lo)
                    THEN <<2 * a.hi + a.lo \div 67108864, (a.lo % 67108864) * 2, 56>>
                    ELSE <<a.hi, a.lo, 55>>,
                    b, a.e - b.e)

\* the double n / d of two ints, d # 0
Dbl(n, d) == DblDiv(DblInt(n), DblInt(d))

-----------------------------------------------------------------------------
(* Instruments and host-side values *)

Instruments == {"A", "B"}

\* instrument->type(): A is an equity, B a future
InstrumentType(i) == IF i = "A" THEN "EQUITY" ELSE "FUTURE"

\* a top quote: both prices, the validity of each side (bid_side().IsValid(),
\* ask_side().IsValid()) and the answer of the quote's own IsValid(); the
\* three answers come from the host and are independent here
Quote(b, a, bv, av, v) ==
    [bid |-> b, ask |-> a, bid_valid |-> bv, ask_valid |-> av, valid |-> v]

NoQuote == Quote(0, 0, FALSE, FALSE, FALSE)

\* instrument->top_quote().IsValid()
QuoteIsValid(q) == q.valid

\* struct VWAPTradeRecord
VWAPTradeRecord(t, p, v) == [timestamp |-> t, price |-> p, volume |-> v]

\* boost::posix_time::seconds(n), in ticks
Seconds(n) == n * TicksPerSecond

\* time_duration::total_seconds(): the whole seconds of a duration, truncated toward zero
TotalSeconds(ticks) ==
    IF ticks >= 0 THEN ticks \div TicksPerSecond ELSE -((-ticks) \div TicksPerSecond)

-----------------------------------------------------------------------------
(* VWAP calculation helpers.  The window state is the triple of the deque  *)
(* and the two accumulators, [w, pv, vol], plus the count of removals.     *)

WindowState == [w |-> vwap_window_, pv |-> cumulative_pv_,
                vol |-> cumulative_volume_, removed |-> 0]

\* AddTradeToWindow with push_front for push_back
AddTradeToFront(s, price, volume, timestamp) ==
    [w       |-> <<VWAPTradeRecord(timestamp, price, volume)>> \o s.w,
     pv      |-> s.pv + price * volume,
     vol     |-> s.vol + volume,
     removed |-> s.removed]

\* VWAPStrategy::AddTradeToWindow
AddTradeToWindow(s, price, volume, timestamp) ==
    [w       |-> Append(s.w, VWAPTradeRecord(timestamp, price, volume)),
     pv      |-> s.pv + price * volume,
     vol     |-> s.vol + volume,
     removed |-> s.removed]

\* PruneOldTrades without "cumulative_volume_ -= old_record.volume"
RECURSIVE PruneKeepingVolume(_, _)
PruneKeepingVolume(s, cutoff_time) ==
    IF s.w # <<>> /\ Head(s.w).timestamp < cutoff_time
    THEN PruneKeepingVolume([w       |-> Tail(s.w),
                             pv      |-> s.pv - Head(s.w).price * Head(s.w).volume,
                             vol     |-> s.vol,
                             removed |-> s.removed + 1], cutoff_time)
    ELSE s

\* PruneOldTrades with "timestamp <= cutoff_time" as the loop test
RECURSIVE PruneThroughCutoff(_, _)
PruneThroughCutoff(s, cutoff_time) ==
    IF s.w # <<>> /\ Head(s.w).timestamp <= cutoff_time
    THEN PruneThroughCutoff([w       |-> Tail(s.w),
                             pv      |-> s.pv - Head(s.w).price * Head(s.w).volume,
                             vol     |-> s.vol - Head(s.w).volume,
                             removed |-> s.removed + 1], cutoff_time)
    ELSE s

\* PruneOldTrades with "if" for "while": at most one record is removed
PruneOneRecord(s, cutoff_time) ==
    IF s.w # <<>> /\ Head(s.w).timestamp < cutoff_time
    THEN [w       |-> Tail(s.w),
          pv      |-> s.pv - Head(s.w).price * Head(s.w).volume,
          vol     |-> s.vol - Head(s.w).volume,
          removed |-> s.removed + 1]
    ELSE s

\* PruneOldTrades without "cumulative_pv_ -= old_record.price * old_record.volume"
RECURSIVE PruneKeepingPV(_, _)
PruneKeepingPV(s, cutoff_time) ==
    IF s.w # <<>> /\ Head(s.w).timestamp < cutoff_time
    THEN PruneKeepingPV([w       |-> Tail(s.w),
                         pv      |-> s.pv,
                         vol     |-> s.vol - Head(s.w).volume,
                         removed |-> s.removed + 1], cutoff_time)
    ELSE s

\* VWAPStrategy::PruneOldTrades
RECURSIVE PruneOldTrades(_, _)
PruneOldTrades(s, cutoff_time) ==
    IF s.w # <<>> /\ Head(s.w).timestamp < cutoff_time
    THEN PruneOldTrades([w       |-> Tail(s.w),
                         pv      |-> s.pv - Head(s.w).price * Head(s.w).volume,
                         vol     |-> s.vol - Head(s.w).volume,
                         removed |-> s.removed + 1], cutoff_time)
    ELSE s

\* VWAPStrategy::GetVWAP
GetVWAP(pv, vol) == IF vol = 0 THEN Zero ELSE Dbl(pv, vol)

\* IsVWAPReady with 2 for MIN_TRADE_REQUIRED
IsVWAPReadyTwoRecords(w, window_seconds) ==
    IF Len(w) >= 2 THEN {"true"}
    ELSE IF w = <<>> THEN {"true", "false", "crash"}
    ELSE IF TotalSeconds(w[Len(w)].timestamp - w[1].timestamp) >= window_seconds
         THEN {"true"} ELSE {"false"}

\* IsVWAPReady answering true as soon as the window holds a record
IsVWAPReadyAnyRecord(w, window_seconds) ==
    IF Len(w) >= MIN_TRADE_REQUIRED THEN {"true"}
    ELSE IF w = <<>> THEN {"true", "false", "crash"}
    ELSE {"true"}

\* IsVWAPReady with "window_span.total_seconds() > vwap_window_seconds_"
IsVWAPReadyStrictSpan(w, window_seconds) ==
    IF Len(w) >= MIN_TRADE_REQUIRED THEN {"true"}
    ELSE IF w = <<>> THEN {"true", "false", "crash"}
    ELSE IF TotalSeconds(w[Len(w)].timestamp - w[1].timestamp) > window_seconds
         THEN {"true"} ELSE {"false"}

\* VWAPStrategy::IsVWAPReady: the set of results the call can produce.
\* With fewer than 3 records the function reads back() and front(); on an
\* empty deque that read is undefined behaviour, and the call may return
\* either value or kill the process.
IsVWAPReady(w, window_seconds) ==
    IF Len(w) >= MIN_TRADE_REQUIRED THEN {"true"}
    ELSE IF w = <<>> THEN {"true", "false", "crash"}
    ELSE IF TotalSeconds(w[Len(w)].timestamp - w[1].timestamp) >= window_seconds
         THEN {"true"} ELSE {"false"}

\* VWAPStrategy::CalculateMidPrice
CalculateMidPrice(q) == DblDiv(DblAdd(DblInt(q.bid), DblInt(q.ask)), DblInt(2))

\* CalculateDeviation with the difference taken as vwap - mid_price
CalculateDeviationReversed(mid_price, vwap) ==
    IF DblIsZero(vwap) THEN Zero
    ELSE DblMul(DblDiv(DblSub(vwap, mid_price), vwap), DblInt(BPS_FACTOR))

\* VWAPStrategy::CalculateDeviation
CalculateDeviation(mid_price, vwap) ==
    IF DblIsZero(vwap) THEN Zero
    ELSE DblMul(DblDiv(DblSub(mid_price, vwap), vwap), DblInt(BPS_FACTOR))

-----------------------------------------------------------------------------
(* Position decision (OnTrade, step 5) *)

\* The decision without the two exit branches
DesiredPositionNoExitRules(current_position, deviation_bps, entry_threshold_bps, max_inventory, position_size) ==
    IF Abs(current_position) < max_inventory
    THEN IF DblLT(deviation_bps, DblNeg(entry_threshold_bps))
         THEN current_position + position_size
         ELSE IF DblGT(deviation_bps, entry_threshold_bps)
              THEN current_position - position_size
              ELSE 0
    ELSE 0

\* The decision with the entry branches tested before the exit branches
DesiredPositionEntryFirst(current_position, deviation_bps, entry_threshold_bps, max_inventory, position_size) ==
    IF Abs(current_position) < max_inventory
       /\ DblLT(deviation_bps, DblNeg(entry_threshold_bps))
    THEN current_position + position_size
    ELSE IF Abs(current_position) < max_inventory
            /\ DblGT(deviation_bps, entry_threshold_bps)
    THEN current_position - position_size
    ELSE 0

\* The decision with no entry from a flat position
DesiredPositionHoldsFlat(current_position, deviation_bps, entry_threshold_bps, max_inventory, position_size) ==
    IF current_position > 0 /\ DblGE(deviation_bps, Zero) THEN 0
    ELSE IF current_position < 0 /\ DblLE(deviation_bps, Zero) THEN 0
    ELSE IF Abs(current_position) < max_inventory /\ current_position # 0
         THEN IF DblLT(deviation_bps, DblNeg(entry_threshold_bps))
              THEN current_position + position_size
              ELSE IF DblGT(deviation_bps, entry_threshold_bps)
                   THEN current_position - position_size
                   ELSE 0
         ELSE 0

\* The decision with the buy and sell entries exchanged
DesiredPositionSidesSwapped(current_position, deviation_bps, entry_threshold_bps, max_inventory, position_size) ==
    IF current_position > 0 /\ DblGE(deviation_bps, Zero) THEN 0
    ELSE IF current_position < 0 /\ DblLE(deviation_bps, Zero) THEN 0
    ELSE IF Abs(current_position) < max_inventory
         THEN IF DblLT(deviation_bps, DblNeg(entry_threshold_bps))
              THEN current_position - position_size
              ELSE IF DblGT(deviation_bps, entry_threshold_bps)
                   THEN current_position + position_size
                   ELSE 0
         ELSE 0

\* OnTrade, "5. Determine desired position based on VWAP deviation":
\* desired_position starts at 0 and is assigned only by the entry branches.
DesiredPosition(current_position, deviation_bps, entry_threshold_bps, max_inventory, position_size) ==
    IF current_position > 0 /\ DblGE(deviation_bps, Zero) THEN 0
    ELSE IF current_position < 0 /\ DblLE(deviation_bps, Zero) THEN 0
    ELSE IF Abs(current_position) < max_inventory
         THEN IF DblLT(deviation_bps, DblNeg(entry_threshold_bps))
              THEN current_position + position_size
              ELSE IF DblGT(deviation_bps, entry_threshold_bps)
                   THEN current_position - position_size
                   ELSE 0
         ELSE 0

-----------------------------------------------------------------------------
(* Order sizing and adjustment.  A handler's requests to the host are a    *)
(* sequence of request records; its log lines are a sequence of tags.      *)

NoEffect == [actions |-> <<>>, logs |-> <<>>]

\* trade_actions()->SendNewOrder(OrderParams(...))
NewOrderRequest(i, quantity, price, side) ==
    [type       |-> "new",
     instrument |-> i,
     id         |-> 0,
     quantity   |-> quantity,
     price      |-> price,
     venue      |-> IF InstrumentType(i) = "EQUITY" THEN "NASDAQ" ELSE "CME_GLOBEX",
     side       |-> side,
     tif        |-> "DAY",
     order_type |-> "MARKET"]

\* trade_actions()->SendCancelOrder(order_id)
CancelOrderRequest(i, order_id) ==
    [type |-> "cancel", instrument |-> i, id |-> order_id, quantity |-> 0, price |-> 0,
     venue |-> "-", side |-> "-", tif |-> "-", order_type |-> "-"]

\* trade_actions()->SendCancelAll(instrument); SendCancelAll() is instrument "*"
CancelAllRequest(i) ==
    [type |-> "cancel_all", instrument |-> i, id |-> 0, quantity |-> 0, price |-> 0,
     venue |-> "-", side |-> "-", tif |-> "-", order_type |-> "-"]

\* SendOrder submitting one unit whatever the trade size
SendOrderOneUnit(i, trade_size, q, dbg) ==
    IF ~q.ask_valid \/ ~q.bid_valid
    THEN [actions |-> <<>>, logs |-> <<"skip_no_two_sided_quote">>]
    ELSE LET price == IF trade_size > 0 THEN q.ask ELSE q.bid
         IN  [actions |-> <<NewOrderRequest(i, 1, price,
                                            IF trade_size > 0 THEN "BUY" ELSE "SELL")>>,
              logs    |-> IF dbg THEN <<"sending_market_order">> ELSE <<>>]

\* SendOrder pricing every order at the bid
SendOrderAtBid(i, trade_size, q, dbg) ==
    IF ~q.ask_valid \/ ~q.bid_valid
    THEN [actions |-> <<>>, logs |-> <<"skip_no_two_sided_quote">>]
    ELSE [actions |-> <<NewOrderRequest(i, Abs(trade_size), q.bid,
                                        IF trade_size > 0 THEN "BUY" ELSE "SELL")>>,
          logs    |-> IF dbg THEN <<"sending_market_order">> ELSE <<>>]

\* SendOrder without the two-sided-quote test
SendOrderOnOneSidedQuote(i, trade_size, q, dbg) ==
    LET price == IF trade_size > 0 THEN q.ask ELSE q.bid
    IN  [actions |-> <<NewOrderRequest(i, Abs(trade_size), price,
                                       IF trade_size > 0 THEN "BUY" ELSE "SELL")>>,
         logs    |-> IF dbg THEN <<"sending_market_order">> ELSE <<>>]

\* VWAPStrategy::SendOrder
SendOrder(i, trade_size, q, dbg) ==
    IF ~q.ask_valid \/ ~q.bid_valid
    THEN [actions |-> <<>>, logs |-> <<"skip_no_two_sided_quote">>]
    ELSE LET price == IF trade_size > 0 THEN q.ask ELSE q.bid
         IN  [actions |-> <<NewOrderRequest(i, Abs(trade_size), price,
                                            IF trade_size > 0 THEN "BUY" ELSE "SELL")>>,
              logs    |-> IF dbg THEN <<"sending_market_order">> ELSE <<>>]

\* AdjustPortfolio without the num_working_orders test: an order is sent for
\* every non-zero trade size
AdjustPortfolioSendsRegardless(i, desired_position, current_position, wk, q, dbg) ==
    LET trade_size == desired_position - current_position
    IN  IF trade_size # 0
        THEN SendOrder(i, trade_size, q, dbg)
        ELSE IF Len(wk) > 0
             THEN [actions |-> <<CancelAllRequest(i)>>, logs |-> <<>>]
             ELSE NoEffect

\* AdjustPortfolio sending a further order when the working order already
\* matches the required direction
AdjustPortfolioStacksOrders(i, desired_position, current_position, wk, q, dbg) ==
    LET trade_size == desired_position - current_position
    IN  IF trade_size # 0
        THEN IF Len(wk) = 0
             THEN SendOrder(i, trade_size, q, dbg)
             ELSE LET order == wk[1]
                  IN  IF (order.side = "BUY" /\ trade_size < 0)
                         \/ (order.side = "SELL" /\ trade_size > 0)
                      THEN [actions |-> <<CancelOrderRequest(i, order.id)>>,
                            logs    |-> <<>>]
                      ELSE SendOrder(i, trade_size, q, dbg)
        ELSE IF Len(wk) > 0
             THEN [actions |-> <<CancelAllRequest(i)>>, logs |-> <<>>]
             ELSE NoEffect

\* AdjustPortfolio without the cancel-all of the trade_size == 0 branch
AdjustPortfolioLeavesResting(i, desired_position, current_position, wk, q, dbg) ==
    LET trade_size == desired_position - current_position
    IN  IF trade_size # 0
        THEN IF Len(wk) = 0
             THEN SendOrder(i, trade_size, q, dbg)
             ELSE LET order == wk[1]
                  IN  IF (order.side = "BUY" /\ trade_size < 0)
                         \/ (order.side = "SELL" /\ trade_size > 0)
                      THEN [actions |-> <<CancelOrderRequest(i, order.id)>>,
                            logs    |-> <<>>]
                      ELSE NoEffect
        ELSE NoEffect

\* AdjustPortfolio cancelling a conflicting working order and sending the
\* replacement order in the same call
AdjustPortfolioCancelAndReplace(i, desired_position, current_position, wk, q, dbg) ==
    LET trade_size == desired_position - current_position
    IN  IF trade_size # 0
        THEN IF Len(wk) = 0
             THEN SendOrder(i, trade_size, q, dbg)
             ELSE LET order == wk[1]
                      eff   == SendOrder(i, trade_size, q, dbg)
                  IN  IF (order.side = "BUY" /\ trade_size < 0)
                         \/ (order.side = "SELL" /\ trade_size > 0)
                      THEN [actions |-> <<CancelOrderRequest(i, order.id)>> \o eff.actions,
                            logs    |-> eff.logs]
                      ELSE NoEffect
        ELSE IF Len(wk) > 0
             THEN [actions |-> <<CancelAllRequest(i)>>, logs |-> <<>>]
             ELSE NoEffect

\* VWAPStrategy::AdjustPortfolio; current_position and wk are what
\* portfolio().position(instrument) and orders() return
AdjustPortfolio(i, desired_position, current_position, wk, q, dbg) ==
    LET trade_size == desired_position - current_position
    IN  IF trade_size # 0
        THEN IF Len(wk) = 0
             THEN SendOrder(i, trade_size, q, dbg)
             ELSE LET order == wk[1]
                  IN  IF (order.side = "BUY" /\ trade_size < 0)
                         \/ (order.side = "SELL" /\ trade_size > 0)
                      THEN [actions |-> <<CancelOrderRequest(i, order.id)>>,
                            logs    |-> <<>>]
                      ELSE NoEffect
        ELSE IF Len(wk) > 0
             THEN [actions |-> <<CancelAllRequest(i)>>, logs |-> <<>>]
             ELSE NoEffect

-----------------------------------------------------------------------------
(* The host's order manager: what a request does to the working orders *)

OrderIds(wk) == UNION {{wk[i][k].id : k \in 1..Len(wk[i])} : i \in Instruments}

\* the host gives a new order an id no working order has
NewOrderId(wk) == CHOOSE n \in 1..(Cardinality(OrderIds(wk)) + 1) : n \notin OrderIds(wk)

MarkCancel(orders, ids) ==
    [k \in 1..Len(orders) |->
        IF orders[k].id \in ids THEN [orders[k] EXCEPT !.cancel_requested = TRUE]
        ELSE orders[k]]

ApplyRequest(wk, a) ==
    IF a.type = "new"
    THEN [wk EXCEPT ![a.instrument] =
              Append(@, [id |-> NewOrderId(wk), side |-> a.side, quantity |-> a.quantity,
                         cancel_requested |-> FALSE])]
    ELSE IF a.type = "cancel"
    THEN [i \in Instruments |-> MarkCancel(wk[i], {a.id})]
    ELSE [i \in Instruments |->
            IF a.instrument \in {i, "*"} THEN MarkCancel(wk[i], OrderIds(wk)) ELSE wk[i]]

RECURSIVE ApplyRequests(_, _)
ApplyRequests(wk, actions) ==
    IF actions = <<>> THEN wk
    ELSE ApplyRequests(ApplyRequest(wk, Head(actions)), Tail(actions))

-----------------------------------------------------------------------------
(* What a handled event leaves for observation *)

NoOut ==
    [event            |-> "init",
     instrument       |-> "-",
     ready            |-> "-",       \* result of IsVWAPReady: "true", "false", "crash"
     empty_read       |-> FALSE,     \* IsVWAPReady read back()/front() of an empty deque
     window_size      |-> 0,         \* vwap_window_.size() when IsVWAPReady ran
     quote            |-> NoQuote,   \* the top quote the handler read
     decided          |-> FALSE,     \* the handler reached the position decision
     vwap             |-> Zero,
     mid_price        |-> Zero,
     deviation_bps    |-> Zero,
     current_position |-> 0,
     desired_position |-> 0,
     num_working      |-> 0,         \* orders().num_working_orders(instrument)
     first_side       |-> "-",       \* side of *orders().working_orders_begin(instrument)
     actions          |-> <<>>,      \* requests sent to the host
     logs             |-> <<>>,      \* logger().LogToClient lines
     stdout           |-> <<>>,      \* std::cout lines
     coerced          |-> "-",       \* OnParamChanged: result of param.Get, "yes" / "no"
     threw            |-> FALSE]     \* the handler ended by throwing

\* The handler whose results are o submitted one new order.
OrderSubmitted(o) ==
    o.decided /\ Len(o.actions) = 1 /\ o.actions[1].type = "new"

\* The handler whose results are o took one of the two exit branches of the
\* decision: a long position with a deviation >= 0, or a short position with
\* a deviation <= 0.  A position flattened because no branch was taken
\* (desired_position keeps its initial 0) met no exit condition.
ExitConditionMet(o) ==
    \/ o.current_position > 0 /\ DblGE(o.deviation_bps, Zero)
    \/ o.current_position < 0 /\ DblLE(o.deviation_bps, Zero)

\* The history of entries and exits: "entered" once an order was submitted
\* from a flat position, "exited" once a later trade event on a non-flat
\* position met an exit condition and submitted the order to flat,
\* "reentered" once a still later trade event submitted an order from a flat
\* position again.  j is the history so far, o the results of a trade event.
JourneyAfter(j, o) ==
    IF ~OrderSubmitted(o) THEN j
    ELSE IF j = "start" /\ o.current_position = 0 THEN "entered"
    ELSE IF j = "entered" /\ ExitConditionMet(o) /\ o.desired_position = 0
    THEN "exited"
    ELSE IF j = "exited" /\ o.current_position = 0 THEN "reentered"
    ELSE j

-----------------------------------------------------------------------------
(* Initial state: the strategy as constructed, the host before any event *)

\* the constructor's initialiser for entry_threshold_bps_: 0.1
DefaultEntryThreshold == Dbl(1, 10)

NoDec == [current_position |-> 0, deviation_bps |-> Zero, entry_threshold_bps |-> Zero,
          max_inventory |-> 0, order_size |-> 0, desired_position |-> 0, done |-> FALSE]

\* VWAPStrategy::VWAPStrategy
Constructed ==
    /\ vwap_window_ = <<>>
    /\ cumulative_pv_ = 0
    /\ cumulative_volume_ = 0
    /\ vwap_window_seconds_ = DEFAULT_WINDOW_SECONDS
    /\ entry_threshold_bps_ = DefaultEntryThreshold
    /\ max_inventory_ = DEFAULT_MAX_INVENTORY
    /\ position_size_ = DEFAULT_POSITION_SIZE
    /\ debug_ = TRUE

HostStart ==
    /\ now = 0
    /\ quote = [i \in Instruments |-> NoQuote]
    /\ position = [i \in Instruments |-> 0]
    /\ working = [i \in Instruments |-> <<>>]
    /\ delivered = <<>>
    /\ cutoffs = {}
    /\ halted = FALSE
    /\ out = NoOut
    /\ journey = "start"

\* no stand-alone pruning: an empty window state, no call made
NoPr == [before |-> [w |-> <<>>, pv |-> 0, vol |-> 0, removed |-> 0], cutoff |-> 0,
         once   |-> [w |-> <<>>, pv |-> 0, vol |-> 0, removed |-> 0],
         twice  |-> [w |-> <<>>, pv |-> 0, vol |-> 0, removed |-> 0], calls |-> 0]

Init == Constructed /\ HostStart /\ dec = NoDec /\ pr = NoPr

-----------------------------------------------------------------------------
(* Event handlers *)

\* IsVWAPReady reaches vwap_window_.back() / front() with no record in the deque
ReadsEmptyDeque(w) == Len(w) < MIN_TRADE_REQUIRED /\ w = <<>>

\* the debug lines of the decision branches of OnTrade
DecisionLogs(current_position, deviation_bps, entry_threshold_bps, max_inventory, dbg) ==
    IF ~dbg THEN <<>>
    ELSE IF current_position > 0 /\ DblGE(deviation_bps, Zero) THEN <<"exit_long">>
    ELSE IF current_position < 0 /\ DblLE(deviation_bps, Zero) THEN <<"exit_short">>
    ELSE IF Abs(current_position) < max_inventory
         THEN IF DblLT(deviation_bps, DblNeg(entry_threshold_bps)) THEN <<"entry_buy">>
              ELSE IF DblGT(deviation_bps, entry_threshold_bps) THEN <<"entry_sell">>
              ELSE <<>>
         ELSE <<>>

\* OnTrade without the "if (!instr->top_quote().IsValid()) return;" step
OnTradeNoQuoteCheck(i, price, size, dt) ==
    /\ ~halted
    /\ now + dt <= MaxTime
    /\ Len(delivered) < MaxTrades
    /\ LET event_time  == now + dt
           s1          == AddTradeToWindow(WindowState, price, size, event_time)
           cutoff_time == event_time - Seconds(vwap_window_seconds_)
           s2          == PruneOldTrades(s1, cutoff_time)
           logs1       == (IF debug_ THEN <<"added_trade">> ELSE <<>>)
                          \o (IF debug_ /\ s2.removed > 0 THEN <<"pruned">> ELSE <<>>)
           q           == quote[i]
           base        == [NoOut EXCEPT !.event = "trade", !.instrument = i,
                                        !.window_size = Len(s2.w),
                                        !.empty_read = ReadsEmptyDeque(s2.w),
                                        !.logs = logs1]
       IN  /\ now' = event_time
           /\ vwap_window_' = s2.w
           /\ cumulative_pv_' = s2.pv
           /\ cumulative_volume_' = s2.vol
           /\ delivered' = Append(delivered, VWAPTradeRecord(event_time, price, size))
           /\ cutoffs' = {IF \E c \in cutoffs : c > cutoff_time
                           THEN CHOOSE c \in cutoffs : TRUE ELSE cutoff_time}
           /\ \E r \in IsVWAPReady(s2.w, vwap_window_seconds_) :
                IF r = "crash"
                THEN /\ halted' = TRUE
                     /\ out' = [base EXCEPT !.ready = r]
                     /\ working' = working
                ELSE IF r = "false"
                THEN /\ halted' = halted
                     /\ out' = [base EXCEPT !.ready = r,
                                            !.logs = @ \o (IF debug_ THEN <<"not_ready">>
                                                           ELSE <<>>),
                                            !.stdout = <<"Skipped">>]
                     /\ working' = working
                ELSE LET vwap             == GetVWAP(s2.pv, s2.vol)
                         mid_price        == CalculateMidPrice(q)
                         deviation_bps    == CalculateDeviation(mid_price, vwap)
                         current_position == position[i]
                         desired_position ==
                             DesiredPosition(current_position, deviation_bps,
                                             entry_threshold_bps_, max_inventory_,
                                             position_size_)
                         eff == AdjustPortfolio(i, desired_position, position[i],
                                                working[i], q, debug_)
                     IN  /\ halted' = halted
                         /\ out' = [base EXCEPT
                                !.ready = r, !.quote = q, !.decided = TRUE,
                                !.vwap = vwap, !.mid_price = mid_price,
                                !.deviation_bps = deviation_bps,
                                !.current_position = current_position,
                                !.desired_position = desired_position,
                                !.num_working = Len(working[i]),
                                !.first_side = IF working[i] = <<>> THEN "-"
                                               ELSE working[i][1].side,
                                !.actions = eff.actions,
                                !.logs = @ \o (IF debug_ THEN <<"trade_line">> ELSE <<>>)
                                           \o DecisionLogs(current_position, deviation_bps,
                                                           entry_threshold_bps_,
                                                           max_inventory_, debug_)
                                           \o eff.logs,
                                !.stdout = <<"vwap", "trade_line">>]
                         /\ working' = ApplyRequests(working, eff.actions)
           /\ journey' = JourneyAfter(journey, out')
           /\ UNCHANGED <<config_fields, quote, position, dec, pr>>

\* OnTrade returning on an invalid quote without the "Invalid quote, skipping" line
OnTradeSilentQuoteSkip(i, price, size, dt) ==
    /\ ~halted
    /\ now + dt <= MaxTime
    /\ Len(delivered) < MaxTrades
    /\ LET event_time  == now + dt
           s1          == AddTradeToWindow(WindowState, price, size, event_time)
           cutoff_time == event_time - Seconds(vwap_window_seconds_)
           s2          == PruneOldTrades(s1, cutoff_time)
           logs1       == (IF debug_ THEN <<"added_trade">> ELSE <<>>)
                          \o (IF debug_ /\ s2.removed > 0 THEN <<"pruned">> ELSE <<>>)
           q           == quote[i]
           base        == [NoOut EXCEPT !.event = "trade", !.instrument = i,
                                        !.window_size = Len(s2.w),
                                        !.empty_read = ReadsEmptyDeque(s2.w),
                                        !.logs = logs1]
       IN  /\ now' = event_time
           /\ vwap_window_' = s2.w
           /\ cumulative_pv_' = s2.pv
           /\ cumulative_volume_' = s2.vol
           /\ delivered' = Append(delivered, VWAPTradeRecord(event_time, price, size))
           /\ cutoffs' = {IF \E c \in cutoffs : c > cutoff_time
                           THEN CHOOSE c \in cutoffs : TRUE ELSE cutoff_time}
           /\ \E r \in IsVWAPReady(s2.w, vwap_window_seconds_) :
                IF r = "crash"
                THEN /\ halted' = TRUE
                     /\ out' = [base EXCEPT !.ready = r]
                     /\ working' = working
                ELSE IF r = "false"
                THEN /\ halted' = halted
                     /\ out' = [base EXCEPT !.ready = r,
                                            !.logs = @ \o (IF debug_ THEN <<"not_ready">>
                                                           ELSE <<>>),
                                            !.stdout = <<"Skipped">>]
                     /\ working' = working
                ELSE IF ~QuoteIsValid(q)
                THEN /\ halted' = halted
                     /\ out' = [base EXCEPT !.ready = r, !.quote = q,
                                            !.vwap = GetVWAP(s2.pv, s2.vol),
                                            !.stdout = <<"vwap">>]
                     /\ working' = working
                ELSE LET vwap             == GetVWAP(s2.pv, s2.vol)
                         mid_price        == CalculateMidPrice(q)
                         deviation_bps    == CalculateDeviation(mid_price, vwap)
                         current_position == position[i]
                         desired_position ==
                             DesiredPosition(current_position, deviation_bps,
                                             entry_threshold_bps_, max_inventory_,
                                             position_size_)
                         eff == AdjustPortfolio(i, desired_position, position[i],
                                                working[i], q, debug_)
                     IN  /\ halted' = halted
                         /\ out' = [base EXCEPT
                                !.ready = r, !.quote = q, !.decided = TRUE,
                                !.vwap = vwap, !.mid_price = mid_price,
                                !.deviation_bps = deviation_bps,
                                !.current_position = current_position,
                                !.desired_position = desired_position,
                                !.num_working = Len(working[i]),
                                !.first_side = IF working[i] = <<>> THEN "-"
                                               ELSE working[i][1].side,
                                !.actions = eff.actions,
                                !.logs = @ \o (IF debug_ THEN <<"trade_line">> ELSE <<>>)
                                           \o DecisionLogs(current_position, deviation_bps,
                                                           entry_threshold_bps_,
                                                           max_inventory_, debug_)
                                           \o eff.logs,
                                !.stdout = <<"vwap", "trade_line">>]
                         /\ working' = ApplyRequests(working, eff.actions)
           /\ journey' = JourneyAfter(journey, out')
           /\ UNCHANGED <<config_fields, quote, position, dec, pr>>

\* OnTrade adding to the window only the trades of the first subscribed
\* instrument; the trades of the other instruments are decided upon but not added
OnTradeFirstSymbolOnly(i, price, size, dt) ==
    /\ ~halted
    /\ now + dt <= MaxTime
    /\ Len(delivered) < MaxTrades
    /\ LET event_time  == now + dt
           s1          == IF i = "A"
                          THEN AddTradeToWindow(WindowState, price, size, event_time)
                          ELSE WindowState
           cutoff_time == event_time - Seconds(vwap_window_seconds_)
           s2          == PruneOldTrades(s1, cutoff_time)
           logs1       == (IF debug_ THEN <<"added_trade">> ELSE <<>>)
                          \o (IF debug_ /\ s2.removed > 0 THEN <<"pruned">> ELSE <<>>)
           q           == quote[i]
           base        == [NoOut EXCEPT !.event = "trade", !.instrument = i,
                                        !.window_size = Len(s2.w),
                                        !.empty_read = ReadsEmptyDeque(s2.w),
                                        !.logs = logs1]
       IN  /\ now' = event_time
           /\ vwap_window_' = s2.w
           /\ cumulative_pv_' = s2.pv
           /\ cumulative_volume_' = s2.vol
           /\ delivered' = Append(delivered, VWAPTradeRecord(event_time, price, size))
           /\ cutoffs' = {IF \E c \in cutoffs : c > cutoff_time
                           THEN CHOOSE c \in cutoffs : TRUE ELSE cutoff_time}
           /\ \E r \in IsVWAPReady(s2.w, vwap_window_seconds_) :
                IF r = "crash"
                THEN /\ halted' = TRUE
                     /\ out' = [base EXCEPT !.ready = r]
                     /\ working' = working
                ELSE IF r = "false"
                THEN /\ halted' = halted
                     /\ out' = [base EXCEPT !.ready = r,
                                            !.logs = @ \o (IF debug_ THEN <<"not_ready">>
                                                           ELSE <<>>),
                                            !.stdout = <<"Skipped">>]
                     /\ working' = working
                ELSE IF ~QuoteIsValid(q)
                THEN /\ halted' = halted
                     /\ out' = [base EXCEPT !.ready = r, !.quote = q,
                                            !.vwap = GetVWAP(s2.pv, s2.vol),
                                            !.logs = @ \o (IF debug_ THEN <<"invalid_quote">>
                                                           ELSE <<>>),
                                            !.stdout = <<"vwap">>]
                     /\ working' = working
                ELSE LET vwap             == GetVWAP(s2.pv, s2.vol)
                         mid_price        == CalculateMidPrice(q)
                         deviation_bps    == CalculateDeviation(mid_price, vwap)
                         current_position == position[i]
                         desired_position ==
                             DesiredPosition(current_position, deviation_bps,
                                             entry_threshold_bps_, max_inventory_,
                                             position_size_)
                         eff == AdjustPortfolio(i, desired_position, position[i],
                                                working[i], q, debug_)
                     IN  /\ halted' = halted
                         /\ out' = [base EXCEPT
                                !.ready = r, !.quote = q, !.decided = TRUE,
                                !.vwap = vwap, !.mid_price = mid_price,
                                !.deviation_bps = deviation_bps,
                                !.current_position = current_position,
                                !.desired_position = desired_position,
                                !.num_working = Len(working[i]),
                                !.first_side = IF working[i] = <<>> THEN "-"
                                               ELSE working[i][1].side,
                                !.actions = eff.actions,
                                !.logs = @ \o (IF debug_ THEN <<"trade_line">> ELSE <<>>)
                                           \o DecisionLogs(current_position, deviation_bps,
                                                           entry_threshold_bps_,
                                                           max_inventory_, debug_)
                                           \o eff.logs,
                                !.stdout = <<"vwap", "trade_line">>]
                         /\ working' = ApplyRequests(working, eff.actions)
           /\ journey' = JourneyAfter(journey, out')
           /\ UNCHANGED <<config_fields, quote, position, dec, pr>>

\* VWAPStrategy::OnTrade for a trade of instrument i delivered dt ticks after
\* the previous trade event
OnTrade(i, price, size, dt) ==
    /\ ~halted
    /\ now + dt <= MaxTime
    /\ Len(delivered) < MaxTrades
    /\ LET event_time  == now + dt
           s1          == AddTradeToWindow(WindowState, price, size, event_time)
           cutoff_time == event_time - Seconds(vwap_window_seconds_)
           s2          == PruneOldTrades(s1, cutoff_time)
           logs1       == (IF debug_ THEN <<"added_trade">> ELSE <<>>)
                          \o (IF debug_ /\ s2.removed > 0 THEN <<"pruned">> ELSE <<>>)
           q           == quote[i]
           base        == [NoOut EXCEPT !.event = "trade", !.instrument = i,
                                        !.window_size = Len(s2.w),
                                        !.empty_read = ReadsEmptyDeque(s2.w),
                                        !.logs = logs1]
       IN  /\ now' = event_time
           /\ vwap_window_' = s2.w
           /\ cumulative_pv_' = s2.pv
           /\ cumulative_volume_' = s2.vol
           /\ delivered' = Append(delivered, VWAPTradeRecord(event_time, price, size))
           /\ cutoffs' = {IF \E c \in cutoffs : c > cutoff_time
                           THEN CHOOSE c \in cutoffs : TRUE ELSE cutoff_time}
           /\ \E r \in IsVWAPReady(s2.w, vwap_window_seconds_) :
                IF r = "crash"
                THEN /\ halted' = TRUE
                     /\ out' = [base EXCEPT !.ready = r]
                     /\ working' = working
                ELSE IF r = "false"
                THEN /\ halted' = halted
                     /\ out' = [base EXCEPT !.ready = r,
                                            !.logs = @ \o (IF debug_ THEN <<"not_ready">>
                                                           ELSE <<>>),
                                            !.stdout = <<"Skipped">>]
                     /\ working' = working
                ELSE IF ~QuoteIsValid(q)
                THEN /\ halted' = halted
                     /\ out' = [base EXCEPT !.ready = r, !.quote = q,
                                            !.vwap = GetVWAP(s2.pv, s2.vol),
                                            !.logs = @ \o (IF debug_ THEN <<"invalid_quote">>
                                                           ELSE <<>>),
                                            !.stdout = <<"vwap">>]
                     /\ working' = working
                ELSE LET vwap             == GetVWAP(s2.pv, s2.vol)
                         mid_price        == CalculateMidPrice(q)
                         deviation_bps    == CalculateDeviation(mid_price, vwap)
                         current_position == position[i]
                         desired_position ==
                             DesiredPosition(current_position, deviation_bps,
                                             entry_threshold_bps_, max_inventory_,
                                             position_size_)
                         eff == AdjustPortfolio(i, desired_position, position[i],
                                                working[i], q, debug_)
                     IN  /\ halted' = halted
                         /\ out' = [base EXCEPT
                                !.ready = r, !.quote = q, !.decided = TRUE,
                                !.vwap = vwap, !.mid_price = mid_price,
                                !.deviation_bps = deviation_bps,
                                !.current_position = current_position,
                                !.desired_position = desired_position,
                                !.num_working = Len(working[i]),
                                !.first_side = IF working[i] = <<>> THEN "-"
                                               ELSE working[i][1].side,
                                !.actions = eff.actions,
                                !.logs = @ \o (IF debug_ THEN <<"trade_line">> ELSE <<>>)
                                           \o DecisionLogs(current_position, deviation_bps,
                                                           entry_threshold_bps_,
                                                           max_inventory_, debug_)
                                           \o eff.logs,
                                !.stdout = <<"vwap", "trade_line">>]
                         /\ working' = ApplyRequests(working, eff.actions)
           /\ journey' = JourneyAfter(journey, out')
           /\ UNCHANGED <<config_fields, quote, position, dec, pr>>

\* OnResetStrategyState without "cumulative_pv_ = 0.0"
OnResetKeepsPV ==
    /\ ~halted
    /\ vwap_window_' = <<>>
    /\ cumulative_pv_' = cumulative_pv_
    /\ cumulative_volume_' = 0
    /\ delivered' = <<>>
    /\ cutoffs' = {}
    /\ out' = [NoOut EXCEPT !.event = "reset"]
    /\ UNCHANGED <<journey, config_fields, now, quote, position, working, halted, dec, pr>>

\* VWAPStrategy::OnResetStrategyState
OnResetStrategyState ==
    /\ ~halted
    /\ vwap_window_' = <<>>
    /\ cumulative_pv_' = 0
    /\ cumulative_volume_' = 0
    /\ delivered' = <<>>
    /\ cutoffs' = {}
    /\ out' = [NoOut EXCEPT !.event = "reset"]
    /\ UNCHANGED <<journey, config_fields, now, quote, position, working, halted, dec, pr>>

ParamNames == {"vwap_window_seconds", "entry_threshold_bps", "max_inventory",
               "position_size", "debug"}

\* OnParamChanged applying a new window length to the window at once: the
\* records older than the new cutoff are pruned by the notification itself
OnParamChangedPrunesWindow(name, value, ok) ==
    /\ ~halted
    /\ vwap_window_seconds_' =
           IF name = "vwap_window_seconds" /\ ok THEN value ELSE vwap_window_seconds_
    /\ entry_threshold_bps_' =
           IF name = "entry_threshold_bps" /\ ok THEN value ELSE entry_threshold_bps_
    /\ max_inventory_' = IF name = "max_inventory" /\ ok THEN value ELSE max_inventory_
    /\ position_size_' = IF name = "position_size" /\ ok THEN value ELSE position_size_
    /\ debug_' = IF name = "debug" /\ ok THEN value ELSE debug_
    /\ LET s == IF name = "vwap_window_seconds" /\ ok
                THEN PruneOldTrades(WindowState, now - Seconds(value))
                ELSE WindowState
       IN  /\ vwap_window_' = s.w
           /\ cumulative_pv_' = s.pv
           /\ cumulative_volume_' = s.vol
    /\ out' = [NoOut EXCEPT !.event = "param", !.instrument = name,
                            !.coerced = IF name \notin ParamNames THEN "-"
                                        ELSE IF ok THEN "yes" ELSE "no",
                            !.threw = (name \in ParamNames /\ ~ok)]
    /\ UNCHANGED <<journey, now, quote, position, working, delivered, cutoffs, halted, dec, pr>>

\* OnParamChanged ignoring the result of param.Get: a failed coercion is not thrown
OnParamChangedSwallowsFailure(name, value, ok) ==
    /\ ~halted
    /\ vwap_window_seconds_' =
           IF name = "vwap_window_seconds" /\ ok THEN value ELSE vwap_window_seconds_
    /\ entry_threshold_bps_' =
           IF name = "entry_threshold_bps" /\ ok THEN value ELSE entry_threshold_bps_
    /\ max_inventory_' = IF name = "max_inventory" /\ ok THEN value ELSE max_inventory_
    /\ position_size_' = IF name = "position_size" /\ ok THEN value ELSE position_size_
    /\ debug_' = IF name = "debug" /\ ok THEN value ELSE debug_
    /\ out' = [NoOut EXCEPT !.event = "param", !.instrument = name,
                            !.coerced = IF name \notin ParamNames THEN "-"
                                        ELSE IF ok THEN "yes" ELSE "no"]
    /\ UNCHANGED <<journey, vwap_window_, cumulative_pv_, cumulative_volume_, now, quote, position,
                   working, delivered, cutoffs, halted, dec, pr>>

\* VWAPStrategy::OnParamChanged: the notification names a parameter and carries
\* a value; ok says whether param.Get can coerce it to the field's type
OnParamChanged(name, value, ok) ==
    /\ ~halted
    /\ vwap_window_seconds_' =
           IF name = "vwap_window_seconds" /\ ok THEN value ELSE vwap_window_seconds_
    /\ entry_threshold_bps_' =
           IF name = "entry_threshold_bps" /\ ok THEN value ELSE entry_threshold_bps_
    /\ max_inventory_' = IF name = "max_inventory" /\ ok THEN value ELSE max_inventory_
    /\ position_size_' = IF name = "position_size" /\ ok THEN value ELSE position_size_
    /\ debug_' = IF name = "debug" /\ ok THEN value ELSE debug_
    /\ out' = [NoOut EXCEPT !.event = "param", !.instrument = name,
                            !.coerced = IF name \notin ParamNames THEN "-"
                                        ELSE IF ok THEN "yes" ELSE "no",
                            !.threw = (name \in ParamNames /\ ~ok)]
    /\ UNCHANGED <<journey, vwap_window_, cumulative_pv_, cumulative_volume_, now, quote, position,
                   working, delivered, cutoffs, halted, dec, pr>>

\* OnOrderUpdate requesting a cancel-all of the instrument when an order completes
OnOrderUpdateCancelsOnFill(i, kind) ==
    /\ ~halted
    /\ working[i] # <<>>
    /\ kind = "cancel" => working[i][1].cancel_requested
    /\ LET order   == working[i][1]
           signed  == IF order.side = "BUY" THEN order.quantity ELSE -order.quantity
           actions == IF kind = "fill" THEN <<CancelAllRequest(i)>> ELSE <<>>
       IN  /\ position' = IF kind = "fill" THEN [position EXCEPT ![i] = @ + signed]
                          ELSE position
           /\ working' = IF kind = "ack" THEN working
                         ELSE ApplyRequests([working EXCEPT ![i] = Tail(@)], actions)
           /\ out' = [NoOut EXCEPT !.event = "order_update", !.instrument = i,
                                   !.actions = actions,
                                   !.logs = IF debug_ THEN <<"order_update">> ELSE <<>>]
    /\ UNCHANGED <<journey, strategy_fields, now, quote, delivered, cutoffs, halted, dec, pr>>

\* The host completes (kind "fill") or cancels (kind "cancel") the first working
\* order of instrument i, or acknowledges it (kind "ack"), and delivers the
\* order update: VWAPStrategy::OnOrderUpdate only logs.
OnOrderUpdate(i, kind) ==
    /\ ~halted
    /\ working[i] # <<>>
    /\ kind = "cancel" => working[i][1].cancel_requested
    /\ LET order  == working[i][1]
           signed == IF order.side = "BUY" THEN order.quantity ELSE -order.quantity
       IN  /\ position' = IF kind = "fill" THEN [position EXCEPT ![i] = @ + signed]
                          ELSE position
           /\ working' = IF kind = "ack" THEN working
                         ELSE [working EXCEPT ![i] = Tail(@)]
    /\ out' = [NoOut EXCEPT !.event = "order_update", !.instrument = i,
                            !.logs = IF debug_ THEN <<"order_update">> ELSE <<>>]
    /\ UNCHANGED <<journey, strategy_fields, now, quote, delivered, cutoffs, halted, dec, pr>>

\* OnStrategyCommand cancelling the orders of the first subscribed instrument only
OnStrategyCommandFirstInstrumentOnly(command_id) ==
    /\ ~halted
    /\ LET actions == IF command_id = 1 THEN <<CancelAllRequest("A")>> ELSE <<>>
       IN  /\ working' = ApplyRequests(working, actions)
           /\ out' = [NoOut EXCEPT !.event = "command",
                                   !.actions = actions,
                                   !.logs = IF command_id = 1 THEN <<"cancelled_all">>
                                            ELSE <<"unknown_command">>]
    /\ UNCHANGED <<journey, strategy_fields, now, quote, position, delivered, cutoffs, halted, dec, pr>>

\* VWAPStrategy::OnStrategyCommand
OnStrategyCommand(command_id) ==
    /\ ~halted
    /\ LET actions == IF command_id = 1 THEN <<CancelAllRequest("*")>> ELSE <<>>
       IN  /\ working' = ApplyRequests(working, actions)
           /\ out' = [NoOut EXCEPT !.event = "command",
                                   !.actions = actions,
                                   !.logs = IF command_id = 1 THEN <<"cancelled_all">>
                                            ELSE <<"unknown_command">>]
    /\ UNCHANGED <<journey, strategy_fields, now, quote, position, delivered, cutoffs, halted, dec, pr>>

\* The host's market data moves the top quote of instrument i; the strategy's
\* OnTopQuote / OnQuote handlers are empty.
QuoteChange(i, q) ==
    /\ ~halted
    /\ quote[i] # q
    /\ quote' = [quote EXCEPT ![i] = q]
    /\ UNCHANGED <<journey, strategy_fields, now, position, working, delivered, cutoffs, halted,
                   out, dec, pr>>

\* One stand-alone evaluation of the position decision on the inputs held in dec
Decide ==
    /\ ~dec.done
    /\ dec' = [dec EXCEPT !.desired_position =
                              DesiredPosition(dec.current_position, dec.deviation_bps,
                                              dec.entry_threshold_bps, dec.max_inventory,
                                              dec.order_size),
                          !.done = TRUE]
    /\ UNCHANGED <<journey, strategy_fields, now, quote, position, working, delivered, cutoffs,
                   halted, out, pr>>

\* One call of PruneOldTrades(pr.cutoff): the first on the window state
\* pr.before, the second on the state the first call left
CallPruneOldTrades ==
    /\ pr.calls < 2
    /\ pr' = IF pr.calls = 0
             THEN [pr EXCEPT !.once = PruneOldTrades(pr.before, pr.cutoff), !.calls = 1]
             ELSE [pr EXCEPT !.twice = PruneOldTrades([pr.once EXCEPT !.removed = 0],
                                                      pr.cutoff),
                             !.calls = 2]
    /\ UNCHANGED <<journey, strategy_fields, now, quote, position, working, delivered, cutoffs,
                   halted, out, dec>>

\* A call of SendOrder(instrument, trade_size) on the quote as it stands, with
\* no order working, as its caller AdjustPortfolio ensures
CallSendOrder(i, trade_size) ==
    /\ ~halted
    /\ trade_size # 0
    /\ working[i] = <<>>
    /\ LET eff == SendOrder(i, trade_size, quote[i], debug_)
       IN  /\ working' = ApplyRequests(working, eff.actions)
           /\ out' = [NoOut EXCEPT !.event = "send_order", !.instrument = i,
                                   !.quote = quote[i],
                                   !.current_position = position[i],
                                   !.desired_position = position[i] + trade_size,
                                   !.actions = eff.actions,
                                   !.logs = eff.logs]
    /\ UNCHANGED <<journey, strategy_fields, now, quote, position, delivered, cutoffs, halted,
                   dec, pr>>

------------------------------------------------------------------------

\* A direct call of IsVWAPReady() and GetVWAP() on the strategy as it stands
\* (the spec's IsReady() / CurrentVWAP() operations); nothing is modified.
CallIsVWAPReady ==
    /\ ~halted
    /\ \E r \in IsVWAPReady(vwap_window_, vwap_window_seconds_) :
          /\ halted' = (r = "crash")
          /\ out' = [NoOut EXCEPT !.event = "query", !.ready = r,
                                  !.window_size = Len(vwap_window_),
                                  !.empty_read = ReadsEmptyDeque(vwap_window_),
                                  !.vwap = GetVWAP(cumulative_pv_, cumulative_volume_)]
    /\ UNCHANGED <<journey, strategy_fields, now, quote, position, working, delivered, cutoffs, dec, pr>>

-----------------------------------------------------------------------------
(* Inputs the host delivers, and the specifications *)

Prices == {2, 4}

Volumes == {-1, 1}

Dts == 0..2

Quotes ==
    {Quote(1, 3, TRUE, TRUE, TRUE), Quote(3, 5, TRUE, TRUE, TRUE),
     Quote(3, 0, TRUE, FALSE, FALSE), Quote(3, 0, TRUE, FALSE, TRUE)}

\* <<name, value>> pairs of the parameter-change notifications
WindowParams == {<<"vwap_window_seconds", v>> : v \in {-1, 0, 1}}

\* The window engine: trade events of one instrument, window-length changes,
\* resets and direct readiness queries, with the host's quotes as at start.
NextWindow ==
    \/ \E p \in Prices, v \in Volumes, dt \in Dts : OnTrade("A", p, v, dt)
    \/ OnResetStrategyState
    \/ \E nv \in WindowParams : OnParamChanged(nv[1], nv[2], TRUE)
    \/ CallIsVWAPReady

SpecWindow == Init /\ [][NextWindow]_vars

\* The window under changes of its length within non-negative lengths.
NextWindowResize ==
    \/ \E p \in Prices, v \in Volumes, dt \in Dts : OnTrade("A", p, v, dt)
    \/ OnResetStrategyState
    \/ \E w \in {0, 1, 2} : OnParamChanged("vwap_window_seconds", w, TRUE)

SpecWindowResize == Init /\ [][NextWindowResize]_vars

\* Trading on signed trade sizes: the window is set to 0 seconds at startup,
\* then trades of either sign, quotes and order updates of one instrument.
NextDegenerate ==
    \/ \E p \in Prices, v \in Volumes, dt \in {0, 1} : OnTrade("A", p, v, dt)
    \/ out.event \in {"init", "param"} /\ OnParamChanged("vwap_window_seconds", 0, TRUE)
    \/ \E kind \in {"ack", "fill", "cancel"} : OnOrderUpdate("A", kind)
    \/ \E q \in {Quote(1, 3, TRUE, TRUE, TRUE), Quote(3, 5, TRUE, TRUE, TRUE)} : QuoteChange("A", q)

SpecDegenerate == Init /\ [][NextDegenerate]_vars

\* <<name, value>> pairs for every parameter, and for a name the strategy
\* does not define
AllParams ==
    {<<"vwap_window_seconds", 0>>, <<"entry_threshold_bps", DblInt(5000)>>,
     <<"max_inventory", 1>>, <<"position_size", 2>>, <<"debug", FALSE>>,
     <<"unknown_name", 0>>}

\* Parameter notifications at any time, with values the host can or cannot
\* coerce, among the trades and quotes of one instrument.
NextParams ==
    \/ \E nv \in AllParams, ok \in BOOLEAN : OnParamChanged(nv[1], nv[2], ok)
    \/ \E p \in Prices : OnTrade("A", p, 1, 0)
    \/ \E q \in {Quote(1, 3, TRUE, TRUE, TRUE), Quote(3, 5, TRUE, TRUE, TRUE),
                 Quote(3, 0, TRUE, FALSE, TRUE)} : QuoteChange("A", q)

SpecParams == Init /\ [][NextParams]_vars

\* Parameter notifications among trade events one second apart, so that the
\* window can hold records older than a newly set window length.
NextParamFrame ==
    \/ \E nv \in AllParams, ok \in BOOLEAN : OnParamChanged(nv[1], nv[2], ok)
    \/ \E dt \in {0, Seconds(1)} : OnTrade("A", 2, 1, dt)

SpecParamFrame == Init /\ [][NextParamFrame]_vars

\* the price at which each instrument trades: A at 2, B at 4
TradePriceOf(i) == IF i = "A" THEN 2 ELSE 4

\* Two subscribed instruments: the trades, quotes and order updates of both,
\* interleaved in every order, with the window set to 0 seconds at startup so
\* that every trade event reaches the decision.
NextInstruments ==
    \/ \E i \in Instruments : OnTrade(i, TradePriceOf(i), 1, 0)
    \/ out.event \in {"init", "param"} /\ OnParamChanged("vwap_window_seconds", 0, TRUE)
    \/ \E i \in Instruments, kind \in {"ack", "fill", "cancel"} : OnOrderUpdate(i, kind)
    \/ \E i \in Instruments, q \in {Quote(1, 3, TRUE, TRUE, TRUE), Quote(3, 5, TRUE, TRUE, TRUE)} : QuoteChange(i, q)

SpecInstruments == Init /\ [][NextInstruments]_vars

\* command ids the host can deliver: the registered command 1 and two others
CommandIds == {0, 1, 2}

\* Strategy commands among the orders of two instruments: orders are
\* submitted, acknowledged and cancelled on both, and trades fill the window.
NextCommands ==
    \/ \E id \in CommandIds : OnStrategyCommand(id)
    \/ \E i \in Instruments, ts \in {-1, 1} : CallSendOrder(i, ts)
    \/ \E i \in Instruments : QuoteChange(i, Quote(1, 3, TRUE, TRUE, TRUE))
    \/ \E i \in Instruments, kind \in {"ack", "cancel"} : OnOrderUpdate(i, kind)
    \/ OnTrade("A", 2, 1, 0)

SpecCommands == Init /\ [][NextCommands]_vars

\* trade prices as reported, of either sign
SignedPrices == {-2, 1, 4}

\* Trading on unvalidated trade ticks: prices and sizes of either sign, the
\* quotes of one instrument, parameters as constructed.
NextSigned ==
    \/ \E p \in SignedPrices, v \in Volumes : OnTrade("A", p, v, 0)
    \/ \E q \in {Quote(1, 3, TRUE, TRUE, TRUE), Quote(3, 5, TRUE, TRUE, TRUE)} : QuoteChange("A", q)
    \/ OnResetStrategyState

SpecSigned == Init /\ [][NextSigned]_vars

\* top quotes with both sides, one side or no side valid
OrderQuotes ==
    {Quote(1, 3, TRUE, TRUE, TRUE), Quote(3, 5, TRUE, TRUE, TRUE), Quote(3, 0, TRUE, FALSE, FALSE),
     Quote(0, 3, FALSE, TRUE, FALSE), NoQuote}

\* Order submission on its own: SendOrder on every kind of quote, with the
\* debug flag either way, and the host cancelling what the command requests.
NextOrders ==
    \/ \E ts \in {-2, -1, 1, 2} : CallSendOrder("A", ts)
    \/ \E q \in OrderQuotes : QuoteChange("A", q)
    \/ \E b \in BOOLEAN : OnParamChanged("debug", b, TRUE)
    \/ \E id \in {1, 2} : OnStrategyCommand(id)
    \/ \E kind \in {"ack", "cancel"} : OnOrderUpdate("A", kind)

SpecOrders == Init /\ [][NextOrders]_vars

\* no trade, order update or reset has been handled yet
\* vwap_window_seconds is registered STRATEGY_PARAM_TYPE_STARTUP: the host
\* changes it only before the strategy runs, here before the first trade
AtStartup == delivered = <<>>

StartupParams == {<<"vwap_window_seconds", 0>>}

\* entry_threshold_bps, max_inventory and position_size are registered
\* STRATEGY_PARAM_TYPE_RUNTIME: the host may change them between any two events
RuntimeParams ==
    {<<"max_inventory", 1>>, <<"position_size", 2>>,
     <<"entry_threshold_bps", DblInt(5000)>>}

\* Trading: the window length is configured at startup; the strategy then
\* handles the trades (each one tick after the one before), quotes and order
\* updates of one instrument, and changes of its runtime parameters at any
\* time.
Next ==
    \/ \E p \in Prices : OnTrade("A", p, 1, 1)
    \/ AtStartup /\ \E nv \in StartupParams : OnParamChanged(nv[1], nv[2], TRUE)
    \/ \E nv \in RuntimeParams : OnParamChanged(nv[1], nv[2], TRUE)
    \/ \E kind \in {"ack", "fill", "cancel"} : OnOrderUpdate("A", kind)
    \/ \E q \in Quotes : QuoteChange("A", q)

Spec == Init /\ [][Next]_vars

\* The position decision on its own: every combination of the inputs below.
MaxDecPosition == 6

DecDeviations ==
    {DblInt(k) : k \in {-10, -3, -2, 0, 2, 3, 10}} \cup {Dbl(-1, 10), Dbl(1, 10), Dbl(1, 20)}

\* Entry thresholds of either sign: the parameter notification stores any
\* double in entry_threshold_bps_.
SignedThresholds == {DblInt(-5), Zero, DefaultEntryThreshold, DblInt(2)}

InitDecision ==
    /\ Constructed
    /\ HostStart
    /\ dec \in [current_position    : (-MaxDecPosition)..MaxDecPosition,
                deviation_bps       : DecDeviations,
                entry_threshold_bps : SignedThresholds,
                max_inventory       : {1, DEFAULT_MAX_INVENTORY},
                order_size          : {DEFAULT_POSITION_SIZE, 2},
                desired_position    : {0},
                done                : {FALSE}]
    /\ pr = NoPr

NextDecision == Decide

SpecDecision == InitDecision /\ [][NextDecision]_vars

\* Pruning on its own: every window state that up to MaxTrades trades with
\* non-decreasing timestamps build, and every cutoff.
TradeRecords ==
    {VWAPTradeRecord(t, p, v) : t \in 0..MaxTime, p \in Prices, v \in Volumes}

TradeSequences ==
    UNION {{w \in [1..n -> TradeRecords] :
                \A k \in 1..(n - 1) : w[k].timestamp <= w[k + 1].timestamp}
           : n \in 0..MaxTrades}

\* the window state after AddTradeToWindow of each record in turn
RECURSIVE WindowOf(_)
WindowOf(recs) ==
    IF recs = <<>> THEN NoPr.before
    ELSE LET r == recs[Len(recs)]
         IN  AddTradeToWindow(WindowOf(SubSeq(recs, 1, Len(recs) - 1)),
                              r.price, r.volume, r.timestamp)

InitPrune ==
    /\ Constructed
    /\ HostStart
    /\ dec = NoDec
    /\ \E recs \in TradeSequences, c \in 0..(MaxTime + 1) :
          pr = [NoPr EXCEPT !.before = WindowOf(recs), !.cutoff = c]

NextPrune == CallPruneOldTrades

SpecPrune == InitPrune /\ [][NextPrune]_vars

\* The readiness check on its own: every window of one to MIN_TRADE_REQUIRED
\* records, in time order, whose timestamps lie 0, 59, 60 or 300 seconds after
\* the first event, under the window length as constructed.
ReadyRecords ==
    {VWAPTradeRecord(Seconds(t), p, 1) : t \in {0, 59, 60, DEFAULT_WINDOW_SECONDS}, p \in Prices}

ReadyWindows ==
    UNION {{w \in [1..n -> ReadyRecords] :
                \A k \in 1..(n - 1) : w[k].timestamp <= w[k + 1].timestamp}
           : n \in 1..MIN_TRADE_REQUIRED}

InitReady ==
    /\ \E recs \in ReadyWindows :
          /\ vwap_window_ = WindowOf(recs).w
          /\ cumulative_pv_ = WindowOf(recs).pv
          /\ cumulative_volume_ = WindowOf(recs).vol
          /\ delivered = recs
          /\ now = recs[Len(recs)].timestamp
          /\ cutoffs = {recs[Len(recs)].timestamp - Seconds(DEFAULT_WINDOW_SECONDS)}
    /\ vwap_window_seconds_ = DEFAULT_WINDOW_SECONDS
    /\ entry_threshold_bps_ = DefaultEntryThreshold
    /\ max_inventory_ = DEFAULT_MAX_INVENTORY
    /\ position_size_ = DEFAULT_POSITION_SIZE
    /\ debug_ = TRUE
    /\ quote = [i \in Instruments |-> NoQuote]
    /\ position = [i \in Instruments |-> 0]
    /\ working = [i \in Instruments |-> <<>>]
    /\ halted = FALSE
    /\ out = [NoOut EXCEPT !.event = "trade", !.instrument = "A"]
    /\ journey = "start"
    /\ dec = NoDec
    /\ pr = NoPr

NextReady == CallIsVWAPReady

SpecReady == InitReady /\ [][NextReady]_vars

-----------------------------------------------------------------------------
(* Properties of the rolling window (checked under SpecWindow, C2 under     *)
(* SpecWindowResize)                                                       *)

RECURSIVE SumVolume(_)
SumVolume(w) == IF w = <<>> THEN 0 ELSE Head(w).volume + SumVolume(Tail(w))

RECURSIVE SumPV(_)
SumPV(w) == IF w = <<>> THEN 0 ELSE Head(w).price * Head(w).volume + SumPV(Tail(w))

Contains(seq, x) == \E k \in 1..Len(seq) : seq[k] = x

\* the trades delivered since the last reset whose timestamp is at or after cut
DeliveredSince(cut) == SelectSeq(delivered, LAMBDA r : r.timestamp >= cut)

\* the span, in ticks, between the oldest and the newest record of a window
SpanTicks(w) == w[Len(w)].timestamp - w[1].timestamp

\* C1: in every reachable state cumulative_volume_ is the sum of volume and
\* cumulative_pv_ the sum of price * volume over the records held in
\* vwap_window_, whatever trades, prunings and resets came before.
AccumulatorsMatchWindow ==
    /\ cumulative_volume_ = SumVolume(vwap_window_)
    /\ cumulative_pv_ = SumPV(vwap_window_)

\* a trade event pruned records and left at least two in the window
PrunedWindowReached ==
    /\ out.event = "trade"
    /\ Contains(out.logs, "pruned")
    /\ Len(vwap_window_) >= 2

LastCutoffIsLargest == cutoffs = {now - vwap_window_seconds_ * TicksPerSecond}

ReadyIffThreeRecordsOrSpan ==
    out.event \in {"trade", "query"} /\ vwap_window_ # <<>> =>
        (out.ready = "true"
            <=> \/ Len(vwap_window_) >= 3
                \/ SpanTicks(vwap_window_) >= vwap_window_seconds_ * TicksPerSecond)

\* two records whose span reaches the window length are ready
TwoRecordsReadyBySpan ==
    /\ out.event = "trade"
    /\ Len(vwap_window_) = 2
    /\ vwap_window_seconds_ > 0
    /\ out.ready = "true"

\* C9 as claimed: on an empty window the readiness check returns false without
\* reading the front or back of the empty deque, and the VWAP is 0.
EmptyWindowNotReady ==
    out.event \in {"trade", "query"} /\ vwap_window_ = <<>> =>
        /\ out.ready = "false"
        /\ ~out.empty_read
        /\ DblIsZero(out.vwap)

-----------------------------------------------------------------------------
(* Properties of the position decision (checked under SpecDecision) *)

\* an exit rule applies to the decision held in dec
ExitRuleApplies ==
    \/ dec.current_position > 0 /\ DblGE(dec.deviation_bps, Zero)
    \/ dec.current_position < 0 /\ DblLE(dec.deviation_bps, Zero)

BelowMaxInventory == Abs(dec.current_position) < dec.max_inventory

\* C3: exit rules come first: with current_position > 0 and deviation >= 0, or
\* current_position < 0 and deviation <= 0, the desired position is 0 for
\* every max_inventory, entry threshold and order size, also at or beyond max
\* inventory, and a deviation of exactly 0 exits both a long and a short.
ExitRulesComeFirst ==
    dec.done /\ ExitRuleApplies => dec.desired_position = 0

\* a long position below max inventory with a deviation above the entry
\* threshold has been decided, and flattened rather than sold into
ExitDecidedOverSellEntry ==
    /\ dec.done
    /\ dec.current_position = 2
    /\ dec.max_inventory = 5
    /\ dec.deviation_bps = DblInt(3)
    /\ dec.entry_threshold_bps = DblInt(2)
    /\ dec.desired_position = 0

\* the buy entry test and the sell entry test of the decision held in dec
BuyEntryTest == DblLT(dec.deviation_bps, DblNeg(dec.entry_threshold_bps))

SellEntryTest == DblGT(dec.deviation_bps, dec.entry_threshold_bps)

\* C4 as claimed: when no exit rule applies and abs(current_position) <
\* max_inventory, a deviation below -entry_threshold gives current_position +
\* order_size and a deviation above +entry_threshold gives current_position -
\* order_size; from flat with threshold 2.0 and order size 1, -3.0 gives +1
\* and +3.0 gives -1.
EntryRules ==
    dec.done /\ ~ExitRuleApplies /\ BelowMaxInventory =>
        /\ BuyEntryTest =>
               dec.desired_position = dec.current_position + dec.order_size
        /\ SellEntryTest =>
               dec.desired_position = dec.current_position - dec.order_size

\* the spec's examples: flat, threshold 2.0, size 1, deviation -3.0 decided
\* as +1 and deviation +3.0 decided as -1
FlatEntryExamples ==
    dec.done /\ dec.current_position = 0 /\ dec.max_inventory = 5
        /\ dec.order_size = 1 /\ dec.entry_threshold_bps = DblInt(2)
    => /\ dec.deviation_bps = DblInt(-3) => dec.desired_position = 1
       /\ dec.deviation_bps = DblInt(3) => dec.desired_position = -1

\* C4, amended: when no exit rule applies and abs(current_position) <
\* max_inventory, a deviation below -entry_threshold gives current_position +
\* order_size, and otherwise (else if) a deviation above +entry_threshold
\* gives current_position - order_size; with entry_threshold >= 0 the two
\* tests exclude each other and a deviation above +entry_threshold always
\* gives current_position - order_size; the flat examples hold as stated.
EntryRulesBuyTestedFirst ==
    /\ FlatEntryExamples
    /\ dec.done /\ ~ExitRuleApplies /\ BelowMaxInventory =>
           /\ BuyEntryTest =>
                  dec.desired_position = dec.current_position + dec.order_size
           /\ ~BuyEntryTest /\ SellEntryTest =>
                  dec.desired_position = dec.current_position - dec.order_size
           /\ DblGE(dec.entry_threshold_bps, Zero) =>
                  /\ ~(BuyEntryTest /\ SellEntryTest)
                  /\ SellEntryTest =>
                         dec.desired_position = dec.current_position - dec.order_size

\* witness of C4: flat, below max inventory, threshold -5 and deviation 0:
\* both entry tests hold, and the buy entry, tested first, decided +1
BothEntryTestsHoldBuyDecided ==
    /\ dec.done
    /\ dec.current_position = 0
    /\ dec.max_inventory = 5
    /\ dec.order_size = 1
    /\ dec.entry_threshold_bps = DblInt(-5)
    /\ dec.deviation_bps = Zero
    /\ BuyEntryTest
    /\ SellEntryTest
    /\ dec.desired_position = 1

-----------------------------------------------------------------------------
(* Properties of the trading strategy (checked under Spec) *)

\* the last handled event is a trade event that reached the position decision
Decided == out.event = "trade" /\ out.decided

\* an exit rule applied to that decision
ExitRuleApplied ==
    \/ out.current_position > 0 /\ DblGE(out.deviation_bps, Zero)
    \/ out.current_position < 0 /\ DblLE(out.deviation_bps, Zero)

\* C5 as claimed: when no exit rule applies, abs(current_position) is below
\* max_inventory and -entry_threshold <= deviation <= entry_threshold, the
\* desired position equals current_position, also for a non-zero
\* current_position, so the trade size is 0 and no new order is submitted.
HoldOnNoSignal ==
    Decided /\ ~ExitRuleApplied
        /\ Abs(out.current_position) < max_inventory_
        /\ DblLE(DblNeg(entry_threshold_bps_), out.deviation_bps)
        /\ DblLE(out.deviation_bps, entry_threshold_bps_)
    => /\ out.desired_position = out.current_position
       /\ \A k \in 1..Len(out.actions) : out.actions[k].type # "new"

\* C6 as claimed: when abs(current_position) >= max_inventory and no exit rule
\* applies, the desired position equals current_position whatever the
\* deviation: no new entry is made and the position is not reduced.
HoldAtInventoryCap ==
    Decided /\ ~ExitRuleApplied /\ Abs(out.current_position) >= max_inventory_
    => out.desired_position = out.current_position

\* C7 as claimed: starting flat, with max_inventory >= 1 and order size >= 1
\* configured at startup and every submitted order filling completely, the
\* position and every desired position stay within
\* [-max_inventory, +max_inventory].
PositionWithinMaxInventory ==
    /\ \A i \in Instruments : Abs(position[i]) <= max_inventory_
    /\ Decided => Abs(out.desired_position) <= max_inventory_

\* C10: when the trade size desired - current is non-zero, the instrument has
\* no working order and both quote sides are valid, exactly one new order is
\* submitted: quantity abs(trade size), side BUY iff the trade size is
\* positive, indicative price the best ask for a buy and the best bid for a
\* sell, type MARKET, time in force DAY.
OneMarketOrderForTradeSize ==
    Decided /\ out.desired_position # out.current_position /\ out.num_working = 0
        /\ out.quote.bid_valid /\ out.quote.ask_valid
    => LET trade_size == out.desired_position - out.current_position
       IN  /\ Len(out.actions) = 1
           /\ out.actions[1].type = "new"
           /\ out.actions[1].instrument = out.instrument
           /\ out.actions[1].quantity = Abs(trade_size)
           /\ out.actions[1].side = (IF trade_size > 0 THEN "BUY" ELSE "SELL")
           /\ out.actions[1].price =
                  (IF trade_size > 0 THEN out.quote.ask ELSE out.quote.bid)
           /\ out.actions[1].order_type = "MARKET"
           /\ out.actions[1].tif = "DAY"
           /\ Len(working[out.instrument]) = 1
           /\ working[out.instrument][1].side = out.actions[1].side
           /\ working[out.instrument][1].quantity = Abs(trade_size)

\* a buy of 2 priced at the ask has been submitted from a short position
BuyOrderSubmitted ==
    /\ Decided
    /\ out.current_position < 0
    /\ out.num_working = 0
    /\ Len(out.actions) = 1
    /\ out.actions[1].type = "new"
    /\ out.actions[1].side = "BUY"
    /\ out.actions[1].quantity = 2
    /\ out.actions[1].price = out.quote.ask

\* the trade size AdjustPortfolio computed at that decision
TradeSize == out.desired_position - out.current_position

\* the side of the first working order conflicts with the trade size
WorkingSideConflicts ==
    \/ out.first_side = "BUY" /\ TradeSize < 0
    \/ out.first_side = "SELL" /\ TradeSize > 0

\* C11: when the trade size is non-zero and the instrument has a working
\* order: if the order's side conflicts with the sign of the trade size (buy
\* order and trade size < 0, or sell order and trade size > 0) exactly the
\* cancellation of that order is requested and no new order is sent; if its
\* side matches the required direction no order action at all is taken.
WorkingOrderCancelledOrLeft ==
    Decided /\ TradeSize # 0 /\ out.num_working > 0 =>
        IF WorkingSideConflicts
        THEN /\ Len(out.actions) = 1
             /\ out.actions[1].type = "cancel"
             /\ out.actions[1].id = working[out.instrument][1].id
             /\ working[out.instrument][1].cancel_requested
             /\ Len(working[out.instrument]) = out.num_working
        ELSE /\ out.actions = <<>>
             /\ Len(working[out.instrument]) = out.num_working

\* a working buy order met a negative trade size and its cancellation was requested
ConflictingBuyCancelled ==
    /\ Decided
    /\ out.num_working = 1
    /\ out.first_side = "BUY"
    /\ TradeSize < 0
    /\ Len(out.actions) = 1
    /\ out.actions[1].type = "cancel"

\* C12: when the trade size is 0 (desired position equals current position):
\* with at least one working order of the instrument, the cancellation of all
\* working orders of that instrument is requested; with none, no order action
\* is taken; in neither case is a new order submitted.
ZeroTradeSizeCancelsAll ==
    Decided /\ TradeSize = 0 =>
        /\ IF out.num_working > 0
           THEN /\ out.actions = <<CancelAllRequest(out.instrument)>>
                /\ \A k \in 1..Len(working[out.instrument]) :
                       working[out.instrument][k].cancel_requested
           ELSE out.actions = <<>>
        /\ Len(working[out.instrument]) = out.num_working

\* a flat strategy with a resting order decided to stay flat and cancelled all
RestingOrderCancelledWhenFlat ==
    /\ Decided
    /\ TradeSize = 0
    /\ out.num_working = 1
    /\ Len(out.actions) = 1
    /\ out.actions[1].type = "cancel_all"

\* C13: every trade event results in at most one order action: at most one
\* of a new-order request, a cancel of one order and a cancel-all of the
\* instrument is issued while one OnTrade is handled, whatever the position,
\* the working orders and the quotes.
AtMostOneOrderAction ==
    out.event = "trade" =>
        /\ Len(out.actions) <= 1
        /\ \A k \in 1..Len(out.actions) :
               out.actions[k].type \in {"new", "cancel", "cancel_all"}

\* with a non-zero position and a working order on the wrong side, one action,
\* the cancel, was issued
OneActionWithPositionAndOrder ==
    /\ Decided
    /\ out.current_position # 0
    /\ out.num_working = 1
    /\ WorkingSideConflicts
    /\ Len(out.actions) = 1

\* the last handled trade event found the window ready and the top quote not valid
SkippedOnInvalidQuote ==
    /\ out.event = "trade"
    /\ out.ready = "true"
    /\ ~QuoteIsValid(out.quote)

\* the step is a trade event of instrument A
TradeEventStep == delivered' # delivered

\* C14: when the instrument's top quote is not valid at a trade event, the
\* event is skipped after the window update: the trade is in the window, no
\* mid price or deviation is computed, no desired position is decided, no
\* order or cancel is issued and nothing is thrown; and the next trade event
\* that finds the window ready and the quote valid is decided as usual.
InvalidQuoteSkipsEvent ==
    /\ [](SkippedOnInvalidQuote =>
             /\ vwap_window_ # <<>>
             /\ vwap_window_[Len(vwap_window_)] = delivered[Len(delivered)]
             /\ ~out.decided
             /\ out.mid_price = Zero /\ out.deviation_bps = Zero
             /\ out.desired_position = 0
             /\ out.actions = <<>>
             /\ ~out.threw
             /\ ~halted)
    /\ [][SkippedOnInvalidQuote /\ TradeEventStep /\ out'.ready = "true"
             /\ QuoteIsValid(quote["A"])
           => out'.decided /\ out'.quote = quote["A"]]_vars

\* a trade event was skipped on a one-sided quote while the strategy held a
\* position that an evaluation would have acted on
SkippedWhileHoldingPosition ==
    /\ SkippedOnInvalidQuote
    /\ out.quote.bid_valid
    /\ position["A"] # 0
    /\ Len(delivered) = 2

\* by its records and the configured length the window is not ready: fewer
\* than 3 records spanning less than vwap_window_seconds
WindowNotReady ==
    /\ vwap_window_ # <<>>
    /\ Len(vwap_window_) < 3
    /\ SpanTicks(vwap_window_) < vwap_window_seconds_ * TicksPerSecond

\* C15: a trade event for which the window is not ready after the
\* add-then-prune step issues no order action and reaches neither the decision
\* nor the order adjustment; the trade is still in the window and no record
\* older than the cutoff is left at its front.
NotReadyNeverActs ==
    /\ out.event = "trade" /\ WindowNotReady => out.ready = "false"
    /\ out.event = "trade" /\ out.ready # "true" =>
           /\ ~out.decided
           /\ out.actions = <<>>
           /\ out.desired_position = 0
    /\ out.event = "trade" /\ out.ready = "false" =>
           /\ vwap_window_[Len(vwap_window_)] = delivered[Len(delivered)]
           /\ vwap_window_[1].timestamp >= now - vwap_window_seconds_ * TicksPerSecond

\* a trade event was skipped as not ready although the quote was valid and the
\* mid price deviated from the VWAP beyond the entry threshold
NotReadyDespiteSignal ==
    /\ out.event = "trade"
    /\ out.ready = "false"
    /\ Len(vwap_window_) = 2
    /\ quote["A"].bid_valid /\ quote["A"].ask_valid
    /\ DblLT(CalculateDeviation(CalculateMidPrice(quote["A"]),
                                GetVWAP(cumulative_pv_, cumulative_volume_)),
             DblNeg(entry_threshold_bps_))

-----------------------------------------------------------------------------
(* Properties of degenerate windows (C16 under SpecDegenerate, C17 under    *)
(* SpecWindowResize)                                                       *)

\* C16 as claimed: a zero cumulative volume is never acted upon: at a trade
\* event where cumulative_volume_ is 0, whatever the signs of the volumes
\* delivered, the VWAP and the deviation are 0 and no order action (new order
\* or cancellation) is issued.
ZeroVolumeNeverActedUpon ==
    out.event = "trade" /\ cumulative_volume_ = 0 =>
        /\ DblIsZero(out.vwap)
        /\ DblIsZero(out.deviation_bps)
        /\ out.actions = <<>>

\* C17 as claimed, for windows that hold records: whenever the readiness
\* check answered true, cumulative_volume_ is non-zero.
ReadyImpliesVolumeNonZero ==
    out.event = "trade" /\ vwap_window_ # <<>> /\ out.ready = "true" =>
        cumulative_volume_ # 0

-----------------------------------------------------------------------------
(* Properties of pruning (checked under SpecPrune) *)

\* C18: pruning is idempotent: for every window state and every cutoff, a
\* second PruneOldTrades(cutoff) immediately after the first removes nothing
\* and leaves the window, cumulative_pv_ and cumulative_volume_ unchanged.
PruneIsIdempotent ==
    pr.calls = 2 =>
        /\ pr.twice.w = pr.once.w
        /\ pr.twice.pv = pr.once.pv
        /\ pr.twice.vol = pr.once.vol
        /\ pr.twice.removed = 0

\* pruned twice, the first call removing two records and leaving one
PrunedTwiceAfterRemoval ==
    /\ pr.calls = 2
    /\ pr.once.removed = 2
    /\ Len(pr.once.w) = 1

\* C19: PruneOldTrades(cutoff) removes records only from the front of the
\* window, only records whose timestamp is strictly less than the cutoff (a
\* record at the cutoff is kept), stops at the first front record that is
\* not older than the cutoff, and subtracts from both accumulators exactly
\* the contribution of each removed record.
PruneRemovesOlderFront ==
    pr.calls >= 1 =>
        LET k       == pr.once.removed
            wb      == pr.before.w
            removed == SubSeq(wb, 1, k)
        IN  /\ k <= Len(wb)
            /\ pr.once.w = SubSeq(wb, k + 1, Len(wb))
            /\ \A j \in 1..k : wb[j].timestamp < pr.cutoff
            /\ pr.once.w # <<>> => pr.once.w[1].timestamp >= pr.cutoff
            /\ pr.once.pv = pr.before.pv - SumPV(removed)
            /\ pr.once.vol = pr.before.vol - SumVolume(removed)

\* a record older than the cutoff was removed and the record at the cutoff kept
RecordAtCutoffKept ==
    /\ pr.calls >= 1
    /\ pr.once.removed >= 1
    /\ pr.once.w # <<>>
    /\ pr.once.w[1].timestamp = pr.cutoff
    /\ pr.once.pv # pr.before.pv

-----------------------------------------------------------------------------
(* Properties of the parameter notifications (checked under SpecParams) *)

\* the last handled event is a notification for a known name whose value
\* could not be coerced
CoercionFailed == out.event = "param" /\ out.coerced = "no"

\* C20: a parameter-change notification for one of the five known names
\* whose value cannot be coerced to the expected type ends by throwing to the
\* host, and issues no order action: no request is sent and the working
\* orders and positions are as before.
FailedCoercionThrows ==
    /\ [](CoercionFailed =>
             /\ out.instrument \in ParamNames
             /\ out.threw
             /\ out.actions = <<>>)
    /\ [][CoercionFailed' => working' = working /\ position' = position]_vars

\* the coercion of max_inventory failed while an order was working
MaxInventoryCoercionFailed ==
    /\ CoercionFailed
    /\ out.instrument = "max_inventory"
    /\ out.threw
    /\ working["A"] # <<>>

-----------------------------------------------------------------------------
(* Frame properties of resets (under SpecWindowResize) and order updates   *)
(* (under Spec)                                                            *)

window_fields == <<vwap_window_, cumulative_pv_, cumulative_volume_>>

\* C21: a state reset empties the window and sets both accumulators to zero,
\* from any prior state, and leaves the five configuration fields unchanged;
\* between resets the window and the accumulators change only through trade
\* events.
ResetClearsWindowOnly ==
    /\ [](out.event = "reset" =>
             vwap_window_ = <<>> /\ cumulative_pv_ = 0 /\ cumulative_volume_ = 0)
    /\ [][out'.event = "reset" => config_fields' = config_fields]_vars
    /\ [][window_fields' # window_fields => out'.event \in {"trade", "reset"}]_vars

\* a reset was handled after trades had been delivered under a changed window length
ResetAfterTrades ==
    /\ out.event = "reset"
    /\ now >= 2
    /\ vwap_window_seconds_ = 1
    /\ vwap_window_ = <<>>

\* C22: order-update events are observability-only: handling one leaves the
\* window, both accumulators and all configuration fields unchanged and
\* issues no new-order or cancel request; the strategy keeps no position of
\* its own, and every decision uses the position the portfolio holds when the
\* trade event is handled.
OrderUpdatesOnlyObserved ==
    /\ [](out.event = "order_update" => out.actions = <<>>)
    /\ [](Decided => out.current_position = position[out.instrument])
    /\ [][out'.event = "order_update" => strategy_fields' = strategy_fields]_vars

\* the update of a fill was handled: the portfolio holds a position, no
\* request was issued
FillObserved ==
    /\ out.event = "order_update"
    /\ position["A"] # 0
    /\ vwap_window_ # <<>>
    /\ out.actions = <<>>

-----------------------------------------------------------------------------
(* Properties of the deviation (checked under SpecSigned) *)

\* the deviation has the sign of mid price - VWAP
DeviationHasSignOfDifference ==
    /\ DblGT(out.deviation_bps, Zero) <=> DblGT(out.mid_price, out.vwap)
    /\ DblLT(out.deviation_bps, Zero) <=> DblLT(out.mid_price, out.vwap)

\* the deviation has the sign of VWAP - mid price
DeviationHasOppositeSign ==
    /\ DblGT(out.deviation_bps, Zero) <=> DblLT(out.mid_price, out.vwap)
    /\ DblLT(out.deviation_bps, Zero) <=> DblGT(out.mid_price, out.vwap)

\* C24 as claimed: for every non-zero VWAP the window can produce, also from
\* negative volumes or prices, the deviation is positive exactly when the
\* mid price (bid + ask) / 2 is above the VWAP and negative exactly when it
\* is below.
DeviationSignFollowsMid ==
    Decided /\ ~DblIsZero(out.vwap) =>
        /\ out.mid_price = Dbl(out.quote.bid + out.quote.ask, 2)
        /\ DeviationHasSignOfDifference

\* C24 amended: for a positive VWAP the deviation is positive exactly when
\* the mid price is above the VWAP and negative exactly when it is below; for
\* a negative VWAP the signs are the opposite ones.
DeviationSignFollowsMidOverPositiveVWAP ==
    Decided /\ ~DblIsZero(out.vwap) =>
        /\ out.mid_price = Dbl(out.quote.bid + out.quote.ask, 2)
        /\ DblGT(out.vwap, Zero) => DeviationHasSignOfDifference
        /\ DblLT(out.vwap, Zero) => DeviationHasOppositeSign

\* a decision was taken on a positive VWAP built from trades of both signs,
\* with the mid price below it
MidBelowPositiveVWAP ==
    /\ Decided
    /\ DblGT(out.vwap, Zero)
    /\ DblLT(out.mid_price, out.vwap)
    /\ DblLT(out.deviation_bps, Zero)
    /\ \E k \in 1..Len(vwap_window_) : vwap_window_[k].volume < 0

-----------------------------------------------------------------------------
(* The strategy documentation against the code (C26 under SpecReady, C27    *)
(* under SpecParams)                                                       *)

\* C26 as documented: the window is ready when it holds at least 3 trades or
\* at least 60 seconds of history (time between its oldest and newest
\* record), independently of the configured 300-second window length.
ReadyAfterSixtySeconds ==
    out.event = "query" /\ vwap_window_ # <<>> =>
        (out.ready = "true"
            <=> \/ Len(vwap_window_) >= 3
                \/ SpanTicks(vwap_window_) >= DOC_READY_SECONDS * TicksPerSecond)

\* C27 as documented: a freshly constructed strategy, before any
\* parameter-change notification, has vwap_window_seconds = 300,
\* entry_threshold_bps = 2.0, max_inventory = 5, position_size = 1 and
\* debug = true, with an empty window and zero accumulators.
ConstructedWithDocumentedDefaults ==
    out.event = "init" =>
        /\ vwap_window_seconds_ = 300
        /\ entry_threshold_bps_ = DblInt(DOC_ENTRY_THRESHOLD)
        /\ max_inventory_ = 5
        /\ position_size_ = 1
        /\ debug_ = TRUE
        /\ vwap_window_ = <<>>
        /\ cumulative_pv_ = 0
        /\ cumulative_volume_ = 0

-----------------------------------------------------------------------------
(* Properties of order submission (checked under SpecOrders) *)

\* SendOrder was the last call handled, on a quote that was not two-sided
SentOnOneSidedQuote ==
    /\ out.event = "send_order"
    /\ ~(out.quote.bid_valid /\ out.quote.ask_valid)

\* C28: asked to send an order while the quote is not two-sided (bid side or
\* ask side invalid), SendOrder submits nothing, emits a log line (with debug
\* on or off), raises no error and leaves no state behind from which the
\* order would be retried: no field of the strategy changes.
OneSidedQuoteSkipsOrder ==
    /\ [](SentOnOneSidedQuote =>
             /\ out.actions = <<>>
             /\ out.logs = <<"skip_no_two_sided_quote">>
             /\ ~out.threw
             /\ ~halted
             /\ working[out.instrument] = <<>>)
    /\ [][out'.event = "send_order" => strategy_fields' = strategy_fields]_vars

\* a buy was asked for with only the bid side valid and debug off: nothing
\* was submitted and the skip was logged
BuySkippedWithoutAsk ==
    /\ SentOnOneSidedQuote
    /\ out.quote.bid_valid
    /\ out.desired_position > out.current_position
    /\ ~debug_
    /\ out.logs # <<>>
    /\ working["A"] = <<>>

-----------------------------------------------------------------------------
(* Observability of skipped events (checked under SpecParams) *)

\* C29: with the debug flag on, every trade event that is skipped or takes
\* no decision logs the reason during that event: "not ready" when the window
\* is not ready, "invalid quote" when the top quote is not valid, and the
\* two-sided-quote line when the order submission is skipped.
SkipsAreLogged ==
    debug_ /\ out.event = "trade" =>
        /\ out.ready = "false" => Contains(out.logs, "not_ready")
        /\ out.ready = "true" /\ ~out.decided => Contains(out.logs, "invalid_quote")
        /\ out.decided /\ out.desired_position # out.current_position
              /\ out.num_working = 0 /\ out.actions = <<>>
           => Contains(out.logs, "skip_no_two_sided_quote")

\* the second trade event found the window ready and was skipped on an
\* invalid quote, with debug on, and logged it
InvalidQuoteSkipLogged ==
    /\ debug_
    /\ out.event = "trade"
    /\ out.ready = "true"
    /\ ~out.decided
    /\ Len(delivered) = 2
    /\ Contains(out.logs, "invalid_quote")

-----------------------------------------------------------------------------
(* Order of the window (checked under SpecWindowResize) *)

\* C30: with trade events delivered at non-decreasing timestamps, in every
\* reachable state the records of the window are in non-decreasing timestamp
\* order from front to back, and after a trade event no record older than
\* the cutoff is left anywhere in the window.
WindowInTimeOrder ==
    /\ \A k \in 1..(Len(vwap_window_) - 1) :
           vwap_window_[k].timestamp <= vwap_window_[k + 1].timestamp
    /\ out.event = "trade" =>
           \A k \in 1..Len(vwap_window_) :
               vwap_window_[k].timestamp >= now - vwap_window_seconds_ * TicksPerSecond

\* three records of three different times, none at time 0, are in the window
ThreeTimesInWindow ==
    /\ Len(vwap_window_) = 3
    /\ vwap_window_[1].timestamp < vwap_window_[2].timestamp
    /\ vwap_window_[2].timestamp < vwap_window_[3].timestamp
    /\ vwap_window_[1].timestamp > 0

-----------------------------------------------------------------------------
(* Parameter notifications as frame conditions (checked under             *)
(* SpecParamFrame)                                                         *)

\* the step handled a parameter-change notification
ParamNotified == out'.event = "param" /\ out' # out

\* the value the notification named n carries
NotifiedValue(n) == (CHOOSE nv \in AllParams : nv[1] = n)[2]

\* the configuration field named n, in the state after the step
FieldAfter(n) ==
    IF n = "vwap_window_seconds" THEN vwap_window_seconds_'
    ELSE IF n = "entry_threshold_bps" THEN entry_threshold_bps_'
    ELSE IF n = "max_inventory" THEN max_inventory_'
    ELSE IF n = "position_size" THEN position_size_'
    ELSE debug_'

\* C31: a successful parameter-change notification sets the one configuration
\* field it names to the value it carries and changes no other configuration
\* field; no notification changes the window or the accumulators or issues an
\* order action (a new window length prunes nothing); a notification with a
\* name that is not one of the five parameters changes no field and throws
\* nothing; and a configuration field changes in no other kind of step.
ParamChangeSetsOnlyNamedField ==
    [][/\ ParamNotified =>
             /\ UNCHANGED <<vwap_window_, cumulative_pv_, cumulative_volume_>>
             /\ UNCHANGED <<working, position>>
             /\ out'.actions = <<>>
             /\ out'.coerced = "yes" =>
                    /\ FieldAfter(out'.instrument) = NotifiedValue(out'.instrument)
                    /\ ~out'.threw
             /\ vwap_window_seconds_' # vwap_window_seconds_ =>
                    out'.instrument = "vwap_window_seconds" /\ out'.coerced = "yes"
             /\ entry_threshold_bps_' # entry_threshold_bps_ =>
                    out'.instrument = "entry_threshold_bps" /\ out'.coerced = "yes"
             /\ max_inventory_' # max_inventory_ =>
                    out'.instrument = "max_inventory" /\ out'.coerced = "yes"
             /\ position_size_' # position_size_ =>
                    out'.instrument = "position_size" /\ out'.coerced = "yes"
             /\ debug_' # debug_ =>
                    out'.instrument = "debug" /\ out'.coerced = "yes"
             /\ out'.instrument \notin ParamNames =>
                    UNCHANGED strategy_fields /\ ~out'.threw
       /\ config_fields' # config_fields => ParamNotified]_vars

\* witness of C31: the window length has just been set to 0 seconds with
\* success while the window holds a record older than the new cutoff, and the
\* record is still in the window
WindowLengthCutWithStaleRecord ==
    /\ out.event = "param"
    /\ out.instrument = "vwap_window_seconds"
    /\ out.coerced = "yes"
    /\ vwap_window_seconds_ = 0
    /\ Len(vwap_window_) >= 2
    /\ vwap_window_[1].timestamp < now - Seconds(vwap_window_seconds_)

-----------------------------------------------------------------------------
(* Orders and the window over two instruments (checked under               *)
(* SpecInstruments)                                                        *)

\* the last handled event sent a new order
NewOrderSent == \E k \in 1..Len(out.actions) : out.actions[k].type = "new"

\* C32: over every interleaving of trade events, acknowledgements, fills and
\* cancel confirmations of two instruments, a new order is submitted for an
\* instrument only when that instrument has no working order, so no
\* instrument ever has more than one working order (an order counting as
\* working from its submission until it is filled or cancelled).
AtMostOneWorkingOrder ==
    /\ \A i \in Instruments : Len(working[i]) <= 1
    /\ out.event = "trade" /\ NewOrderSent =>
          /\ out.num_working = 0
          /\ Len(out.actions) = 1
          /\ out.actions[1].instrument = out.instrument

\* witness of C32: after an earlier fill, a trade event asks for a further
\* trade while an order of the instrument is working, and sends nothing
HeldBackByWorkingOrder ==
    /\ out.event = "trade"
    /\ out.decided
    /\ out.current_position # 0
    /\ out.desired_position # out.current_position
    /\ out.num_working = 1
    /\ out.actions = <<>>
    /\ Len(working[out.instrument]) = 1

-----------------------------------------------------------------------------
(* The readiness check inside a trade event (C33 under SpecWindow, C34      *)
(* under SpecWindowResize)                                                 *)

\* C33 as claimed: for every sequence of trade events, resets and parameter
\* changes, with any integer window length, when OnTrade evaluates IsVWAPReady
\* after adding and pruning, the window is non-empty and its last record is the
\* trade just delivered, so the check reads no front or back of an empty deque.
ReadyCheckSeesDeliveredTrade ==
    out.event = "trade" =>
        /\ out.window_size >= 1
        /\ ~out.empty_read
        /\ vwap_window_ # <<>>
        /\ vwap_window_[Len(vwap_window_)] = delivered[Len(delivered)]

\* C34: with a positive window length, after the add-then-prune step of a
\* trade event a ready window holds at least 3 records, or exactly 2 records
\* whose timestamps differ by exactly vwap_window_seconds; a window of one
\* record is never ready, and pruning keeps the span within the window length.
ReadyBelowThreeOnlyAtFullSpan ==
    out.event = "trade" /\ vwap_window_seconds_ > 0 /\ vwap_window_ # <<>> =>
        /\ SpanTicks(vwap_window_) <= Seconds(vwap_window_seconds_)
        /\ Len(vwap_window_) = 1 => out.ready = "false"
        /\ out.ready = "true" =>
              \/ Len(vwap_window_) >= MIN_TRADE_REQUIRED
              \/ /\ Len(vwap_window_) = 2
                 /\ SpanTicks(vwap_window_) = Seconds(vwap_window_seconds_)

\* witness of C34: the third trade event pruned the oldest record and left two
\* records exactly one window length apart, and the window is ready
TwoRecordsLeftAtFullSpan ==
    /\ out.event = "trade"
    /\ vwap_window_seconds_ > 0
    /\ Len(delivered) = 3
    /\ Len(vwap_window_) = 2
    /\ SpanTicks(vwap_window_) = Seconds(vwap_window_seconds_)
    /\ out.ready = "true"

-----------------------------------------------------------------------------
(* One window for all instruments (checked under SpecInstruments)          *)

\* the step handled a trade event of instrument i
TradeStepOf(i) == out'.event = "trade" /\ out'.instrument = i /\ delivered' # delivered

\* C35: the strategy keeps one window and one pair of accumulators for all
\* subscribed instruments.  A trade event of any instrument appends its trade
\* to the same window; the VWAP used for the decision is the one over the
\* trades of every instrument; the mid price, the position and the working
\* orders are those of the event's instrument, and only that instrument's
\* orders are acted upon.
OneWindowForAllInstruments ==
    [][\A i \in Instruments : TradeStepOf(i) =>
          /\ vwap_window_' = Append(vwap_window_, VWAPTradeRecord(now', TradePriceOf(i), 1))
          /\ cumulative_pv_' = SumPV(delivered')
          /\ cumulative_volume_' = SumVolume(delivered')
          /\ out'.window_size = Len(delivered')
          /\ out'.decided =>
                /\ out'.vwap = GetVWAP(SumPV(delivered'), SumVolume(delivered'))
                /\ out'.mid_price = CalculateMidPrice(quote[i])
                /\ out'.current_position = position[i]
                /\ out'.num_working = Len(working[i])
                /\ \A k \in 1..Len(out'.actions) : out'.actions[k].instrument = i
                /\ \A j \in Instruments \ {i} : working'[j] = working[j]]_vars

\* the position decision of the last trade event, had the window held only
\* the trades made at the price of instrument i
DecisionOnOwnTrades(i) ==
    LET own  == SelectSeq(vwap_window_, LAMBDA r : r.price = TradePriceOf(i))
        vwap == GetVWAP(SumPV(own), SumVolume(own))
    IN  DesiredPosition(out.current_position, CalculateDeviation(out.mid_price, vwap),
                        entry_threshold_bps_, max_inventory_, position_size_)

\* witness of C35: a trade event of A is decided on a window that holds a
\* trade of B, and the desired position is not the one that the trades of A
\* alone would give
TradeOfBChangesDecisionOfA ==
    /\ out.event = "trade"
    /\ out.instrument = "A"
    /\ out.decided
    /\ \E k \in 1..Len(vwap_window_) : vwap_window_[k].price = TradePriceOf("B")
    /\ out.desired_position # DecisionOnOwnTrades("A")

-----------------------------------------------------------------------------
(* The sign of the position across one decision (checked under             *)
(* SpecDecision)                                                           *)

\* a decision on a long position leaves it long or flat
LongStaysLongOrFlat == dec.current_position > 0 => dec.desired_position >= 0

\* a decision on a short position leaves it short or flat
ShortStaysShortOrFlat == dec.current_position < 0 => dec.desired_position <= 0

\* C36 as claimed: with order_size >= 1 a single decision never reverses the
\* sign of the position: from a long position the desired position is >= 0
\* and from a short position it is <= 0.
DecisionNeverReversesSign ==
    dec.done /\ dec.order_size >= 1 => LongStaysLongOrFlat /\ ShortStaysShortOrFlat

\* C36, amended: with order_size >= 1 a decision on a long position desires a
\* position >= 0 whatever the entry threshold, and a decision on a short
\* position desires a position <= 0 when the entry threshold is not negative.
DecisionNeverReversesSignAtNonNegativeThreshold ==
    dec.done /\ dec.order_size >= 1 =>
        /\ LongStaysLongOrFlat
        /\ DblGE(dec.entry_threshold_bps, Zero) => ShortStaysShortOrFlat

\* witness of C36: a long position smaller than the order size meets a sell
\* signal below the inventory cap; the exit rule decides and the desired
\* position is flat, not short
SmallLongExitsOnSellSignal ==
    /\ dec.done
    /\ dec.current_position = 1
    /\ dec.order_size = 2
    /\ dec.current_position < dec.max_inventory
    /\ DblGE(dec.entry_threshold_bps, Zero)
    /\ DblGT(dec.deviation_bps, dec.entry_threshold_bps)
    /\ dec.desired_position = 0

-----------------------------------------------------------------------------
(* The exit order (checked under Spec)                                     *)

\* the last handled event is a trade event that met an exit condition with
\* the window ready, a valid quote with both sides valid and no working
\* order of the instrument
ExitWithoutWorkingOrder ==
    /\ Decided
    /\ ExitRuleApplied
    /\ out.quote.bid_valid /\ out.quote.ask_valid
    /\ out.num_working = 0

\* that event submitted exactly one market order for abs(current_position),
\* a SELL for a long position and a BUY for a short one
ExitOrderFlattens ==
    ExitWithoutWorkingOrder =>
        /\ out.desired_position = 0
        /\ Len(out.actions) = 1
        /\ out.actions[1].type = "new"
        /\ out.actions[1].instrument = out.instrument
        /\ out.actions[1].order_type = "MARKET"
        /\ out.actions[1].quantity = Abs(out.current_position)
        /\ out.actions[1].side = (IF out.current_position > 0 THEN "SELL" ELSE "BUY")

\* C37: a trade event that meets an exit condition (long with deviation >= 0,
\* short with deviation <= 0) with the window ready, a valid two-sided quote
\* and no working order submits, within the event, exactly one market order
\* whose quantity is abs(current_position) and whose side is SELL for a long
\* and BUY for a short; the complete fill of that order brings the position
\* to exactly 0.
ExitSubmitsFlatteningOrder ==
    /\ []ExitOrderFlattens
    /\ [][ExitWithoutWorkingOrder /\ position' # position
             => position'[out.instrument] = 0]_vars

\* witness of C37: a long position of 2 met a deviation >= 0 with no order
\* working, and one SELL of 2 has been submitted
LongExitSellSubmitted ==
    /\ ExitWithoutWorkingOrder
    /\ out.current_position = 2
    /\ DblGE(out.deviation_bps, Zero)
    /\ Len(out.actions) = 1
    /\ out.actions[1].side = "SELL"
    /\ out.actions[1].quantity = 2
    /\ Len(working[out.instrument]) = 1

-----------------------------------------------------------------------------
(* Strategy commands (checked under SpecCommands)                          *)

\* every working order of every instrument has its cancellation requested,
\* in the state after the step
AllCancelsRequestedAfter ==
    \A i \in Instruments : \A k \in 1..Len(working'[i]) : working'[i][k].cancel_requested

\* C38: a strategy command with id 1 requests the cancellation of all of the
\* strategy's orders, across all instruments; a command with any other id
\* issues no order action; either command leaves the window, the accumulators
\* and the configuration unchanged and submits no new order.
CommandOnlyCancels ==
    [][\A id \in CommandIds : OnStrategyCommand(id) =>
          /\ UNCHANGED strategy_fields
          /\ UNCHANGED position
          /\ \A k \in 1..Len(out'.actions) : out'.actions[k].type # "new"
          /\ \A i \in Instruments : Len(working'[i]) = Len(working[i])
          /\ id = 1 => /\ out'.actions = <<CancelAllRequest("*")>>
                       /\ AllCancelsRequestedAfter
          /\ id # 1 => /\ out'.actions = <<>>
                       /\ working' = working]_vars

\* witness of C38: a command has just requested the cancellation of the
\* working orders of both instruments, with trades in the window
BothInstrumentsCancelRequested ==
    /\ out.event = "command"
    /\ out.actions # <<>>
    /\ vwap_window_ # <<>>
    /\ \A i \in Instruments :
          /\ Len(working[i]) = 1
          /\ working[i][1].cancel_requested

-----------------------------------------------------------------------------
(* Flat is left, reached again and left again (checked under Spec)         *)

\* the last handled event is a trade event that reached the position
\* decision with both quote sides valid and no working order of the
\* instrument, under a non-zero order size
AbleToOrder ==
    /\ Decided
    /\ out.quote.bid_valid /\ out.quote.ask_valid
    /\ out.num_working = 0
    /\ position_size_ # 0

\* the deviation of that event is beyond the entry threshold on either side
EntrySignal ==
    \/ DblLT(out.deviation_bps, DblNeg(entry_threshold_bps_))
    \/ DblGT(out.deviation_bps, entry_threshold_bps_)

\* C25: no state is terminal and flat is re-enterable.  A trade event that
\* reaches the decision from a flat position with a ready window, a valid
\* two-sided quote, no working order, max_inventory > 0 and a deviation
\* beyond the entry threshold submits exactly one entry order of the order
\* size (desired +position_size on the buy test, tested first, and
\* -position_size otherwise); one that meets an exit condition on a non-flat
\* position submits exactly one order for abs(current_position) back to
\* flat.  The history variable journey records a run that entered from flat,
\* exited to flat and entered from flat again.
FlatIsLeftAndReentered ==
    /\ journey \in {"start", "entered", "exited", "reentered"}
    /\ AbleToOrder /\ out.current_position = 0 /\ max_inventory_ > 0 /\ EntrySignal =>
           /\ out.desired_position =
                  (IF DblLT(out.deviation_bps, DblNeg(entry_threshold_bps_))
                   THEN position_size_ ELSE -position_size_)
           /\ OrderSubmitted(out)
           /\ out.actions[1].quantity = Abs(position_size_)
           /\ out.actions[1].side =
                  (IF out.desired_position > 0 THEN "BUY" ELSE "SELL")
           /\ journey # "start"
    /\ AbleToOrder /\ out.current_position # 0 /\ ExitRuleApplied =>
           /\ out.desired_position = 0
           /\ OrderSubmitted(out)
           /\ out.actions[1].quantity = Abs(out.current_position)
           /\ out.actions[1].side =
                  (IF out.current_position > 0 THEN "SELL" ELSE "BUY")
           /\ journey \in {"exited", "reentered"}

\* witness of C25: the third trade event of a run submitted an entry order
\* from a flat position, after an earlier event entered from flat and a
\* later one exited a non-flat position to flat
ReenteredAfterExit ==
    /\ journey = "reentered"
    /\ Decided
    /\ out.current_position = 0
    /\ OrderSubmitted(out)
    /\ out.desired_position # 0
    /\ Len(delivered) = 3

====
